---- MODULE Spec2Model ----
(***************************************************************************)
(* A model of the crawl-and-extract pipeline: the record store's          *)
(* find-then-insert (crawler/scraper.py), the robots policy                *)
(* (crawler/robots_checker.py), the link extractor and the depth-first     *)
(* crawl (crawler/crawler.py), and the rendered-fetch executor             *)
(* (crawler/scraper.py).  Each part has its own specification; the         *)
(* variables of the other parts stay at their initial values.              *)
(***************************************************************************)
EXTENDS Integers, Sequences, FiniteSets, TLC

VARIABLES
    \* ---- record store (WebScraper.collection, scraper.py:19) ----
    collection,      \* public_records: document -> number of stored copies
    runs,            \* the crawl runs in flight, each saving records
    runPc,           \* per run: position inside the save loop, scraper.py:333-346
    runRec,          \* per run: the record being saved
    runExisting,     \* per run: what find_one returned (TRUE = a document)
    runFailed,       \* per run: an exception escaped the save loop
    runErrors,       \* per run: store errors met inside the save loop so far
    pages,           \* the pages (source_url values) the runs scrape
    \* ---- robots policy (RobotsChecker, robots_checker.py:12-15) ----
    robots_cache,         \* domain -> cached RobotFileParser, or NotCached
    robots_read_success,  \* domain -> "unset" | "yes" | "no"
    robotsRequests,       \* domain -> robots-file requests issued so far
    robotsLast,           \* the last call on the checker and what it returned
    \* ---- crawl run (WebCrawler, crawler.py:17-24; WebScraper, scraper.py:15-18) ----
    visited_urls,    \* self.visited_urls
    stack,           \* the crawl_url activations, outermost first
    crawl_jobs,      \* crawl_jobs collection: url -> job document, or NoJob
    jobCopies,       \* crawl_jobs collection: url -> documents stored with that url
    use_playwright,  \* self.scraper.use_playwright
    browser,         \* self.scraper.browser: "none" | "open"
    calls,           \* top-level calls made on this crawler so far
    scrapes,         \* url -> times scrape(url) was called in this run
    runningWrites,   \* url -> times the job of url was written as running
    fetchDepths,     \* the depths at which a page fetch was issued
    lastReturn,      \* what the last top-level crawl_url call returned, and where
    robotsSkips,     \* URLs skipped because can_fetch returned false
    max_depth,       \* the max_depth the calls on this crawler are made with
    site,            \* which pages the crawled host serves
    io,              \* the sleep or page fetch of the step that led here, if any
    subtree,         \* url -> the pages scraped while crawl_url(url) was running
    \* ---- rendered fetches (WebScraper, scraper.py:33-35, 74-118) ----
    callerPc,        \* thread -> where it is in _fetch_with_playwright
    callerTask,      \* thread -> the future it waits on, or NoTask
    queue,           \* the executor's work queue, oldest first
    workerTask,      \* executor worker -> the task it runs, or NoTask
    taskPc,          \* task -> "none" | "queued" | "init" | "fetch" | how it returned
    submitted,       \* tasks submitted to the executor so far
    failures,        \* how the calls that returned None for a failure failed
    taskPage,        \* task -> the page it opened: "none" | "open" | "closed"
    cleanupPc,       \* WebScraper.cleanup: "none" | "draining" | "done"
    \* ---- scheduler (CrawlScheduler, scheduler.py:16-26) ----
    sched,           \* self.scheduler: "new" | "started" | "stopping" | "stopped"
    clock,           \* datetime.utcnow(), in hours
    seedJobs,        \* crawl_jobs documents the scheduler reads: seed -> job
    runner,          \* thread -> the crawl run it is in, and how its last one ended
    periodic,        \* the interval job: its next run time, and the runs it made
    \* ---- record extractor (WebScraper, scraper.py:127-306) ----
    raw,             \* a text a phone pattern is applied to
    phoneRun,        \* the phone extracted from raw, and from that phone again
    soup,            \* the parsed page given to _extract_structured_data
    extracted,       \* what _extract_structured_data returned for soup
    \* ---- attribute extraction (AIService, ai_service.py:24-110) ----
    ai_cache,        \* ai_cache collection: the cached responses
    utcnow,          \* datetime.utcnow() of the cache, in hours
    lastExtract      \* the last _extract_search_attributes call and its result

storeVars ==
    <<collection, runs, runPc, runRec, runExisting, runFailed, runErrors, pages>>

robotsVars == <<robots_cache, robots_read_success, robotsRequests, robotsLast>>

crawlVars ==
    <<visited_urls, stack, crawl_jobs, jobCopies, use_playwright, browser, calls,
      scrapes, runningWrites, fetchDepths, lastReturn, robotsSkips,
      max_depth, site, io, subtree>>

fetchVars ==
    <<callerPc, callerTask, queue, workerTask, taskPc, submitted, failures,
      taskPage, cleanupPc>>

schedVars == <<sched, clock, seedJobs, runner, periodic>>

extractVars == <<raw, phoneRun, soup, extracted>>

aiVars == <<ai_cache, utcnow, lastExtract>>

vars == <<storeVars, robotsVars, crawlVars, fetchVars, schedVars, extractVars, aiVars>>

(***************************************************************************)
(* Bounds                                                                  *)
(***************************************************************************)
MaxNames == 1

MaxHosts == 1

\* max_depth of the modelled runs (crawler.py:91 defaults it to 3).
MaxDepth == 1

\* Anchors with an href on one page.
MaxAnchors == 2

\* Top-level crawl_url calls on one crawler: the seeds of crawl_seed_urls
\* calls, and calls from outside.
MaxCalls == 2

\* Records the extractor returns for one page.
MaxPageRecords == 1

\* Store errors one run meets while saving.
MaxErrors == 1

\* Threads calling _fetch_with_playwright on one scraper.
MaxCallers == 2

\* Rendered fetches submitted to one scraper's executor.
MaxTasks == 3

\* Entries of CrawlScheduler.seed_urls.
MaxSchedSeeds == 2

\* Pieces of a text given to a phone pattern.
MaxSegments == 4

\* Columns of a table given to the extractor.
MaxCols == 2

\* Hours the modelled clock runs for.
MaxTime == 2

\* CRAWL_INTERVAL_HOURS as configured for the modelled runs
\* (scheduler.py:19 defaults it to 24).
crawl_interval_hours == 2

\* Messages of one conversation history.
MaxHistory == 1

\* CacheService.ttl_hours of the modelled cache (cache_service.py:11
\* defaults it to 24).
ttl_hours == 1

(***************************************************************************)
(* URLs as urlparse sees them: scheme, network location, path             *)
(***************************************************************************)
Schemes == {"http", "https"}

\* Network locations, numbered; seeds and robots callers use Hosts, and
\* pages may link to one more, foreign, network location.
Hosts == 1..MaxHosts

LinkHosts == 1..(MaxHosts + 1)

\* urlparse(...).netloc of a string without a network location.
NoNetloc == 0

Paths == {"/", "/list"}

\* A path that contains one of the excluded patterns (crawler.py:41-45).
ExcludedPaths == {"/login"}

\* The URLs callers pass in.
Urls == [scheme : Schemes, netloc : Hosts, path : Paths]

\* The URLs a page can lead to.
AllUrls == [scheme : Schemes, netloc : LinkHosts, path : Paths]

\* domain = f"{parsed.scheme}://{parsed.netloc}" (robots_checker.py:45-46,
\* 94-95).
DomainOf(url) == <<url.scheme, url.netloc>>

Domains == Schemes \X LinkHosts

(***************************************************************************)
(* The link extractor, crawler.py:26-73                                    *)
(***************************************************************************)
\* The href of an anchor as urlparse splits it: "" for no scheme, NoNetloc
\* for no network location, "" for no path or no fragment.
Hrefs ==
    [scheme : Schemes \cup {"", "mailto"}, netloc : LinkHosts \cup {NoNetloc},
     path : Paths \cup ExcludedPaths \cup {""}, fragment : {"", "top"}]

\* urljoin(base_url, href) (crawler.py:65): an empty href is the base; an
\* href of another scheme, or of a scheme that takes no relative form, is
\* returned as it is; a network location in the href replaces the base's;
\* an empty path takes the base's path.
UrlJoin(base, href) ==
    LET scheme == IF href.scheme = "" THEN base.scheme ELSE href.scheme
    IN IF href = [scheme |-> "", netloc |-> NoNetloc, path |-> "", fragment |-> ""]
       THEN [scheme |-> base.scheme, netloc |-> base.netloc, path |-> base.path,
             fragment |-> ""]
       ELSE IF scheme # base.scheme \/ scheme \notin Schemes
       THEN href
       ELSE IF href.netloc # NoNetloc
       THEN [scheme |-> scheme, netloc |-> href.netloc, path |-> href.path,
             fragment |-> href.fragment]
       ELSE [scheme |-> scheme, netloc |-> base.netloc,
             path |-> IF href.path = "" THEN base.path ELSE href.path,
             fragment |-> href.fragment]

\* absolute_url.split("#")[0] (crawler.py:68), then read as a URL.
StripFragment(u) == [scheme |-> u.scheme, netloc |-> u.netloc, path |-> u.path]

\* for pattern in excluded_patterns: if pattern in url.lower()
\* (crawler.py:41-49): the path patterns, and the "mailto:" pattern.
HasExcludedPattern(url) ==
    url.path \in ExcludedPaths \/ url.scheme = "mailto"

\* _is_valid_url(url, base_domain) (crawler.py:26-53); base_netloc is
\* urlparse(base_domain).netloc.
IsValidUrlMut(url, base_netloc) ==
    /\ url.scheme \in {"http", "https"}
    /\ url.netloc # NoNetloc
    /\ ~HasExcludedPattern(url)

IsValidUrl(url, base_netloc) ==
    /\ url.scheme \in {"http", "https"}
    /\ url.netloc = base_netloc
    /\ ~HasExcludedPattern(url)

\* urlparse(f"https://{base_domain}").netloc for base_domain =
\* urlparse(base_url).netloc (crawler.py:61, 70, 30).
BaseNetloc(base_url) == [scheme |-> "https", netloc |-> base_url.netloc].netloc

\* _extract_links(html_content, base_url) (crawler.py:55-73); html is the
\* page's anchors with an href, in document order.
ExtractLinks(html, base_url) ==
    LET absolute == [i \in 1..Len(html) |-> StripFragment(UrlJoin(base_url, html[i]))]
        valid(u) == IsValidUrl(u, BaseNetloc(base_url))
    IN SelectSeq(absolute, valid)

(***************************************************************************)
(* The robots policy, robots_checker.py                                    *)
(***************************************************************************)
\* The crawler's agent string (crawler.py:24) and the default of
\* can_fetch / get_crawl_delay (robots_checker.py:82, 116).
CrawlerAgent == "Mozilla/5.0"

UserAgents == {CrawlerAgent, "*"}

NotCached == [kind |-> "none", agents |-> {}, delay |-> 0]

\* RobotFileParser() before read() has parsed anything.
UnreadParser == [kind |-> "unread", agents |-> {}, delay |-> 0]

\* What read() can leave in the parser: allow_all (a 4xx answer),
\* disallow_all (401/403), nothing (a 5xx answer), or parsed rules that
\* disallow /list for the agents named and may declare a crawl delay.
ReadParsers ==
    {[kind |-> k, agents |-> {}, delay |-> 0] : k \in {"allow_all", "disallow_all", "unread"}}
    \cup {[kind |-> "rules", agents |-> {CrawlerAgent}, delay |-> 0],
          [kind |-> "rules", agents |-> UserAgents, delay |-> 0],
          [kind |-> "rules", agents |-> UserAgents, delay |-> 5]}

\* The outcome of one robots-file request: read() raises (DNS failure,
\* connection refused), or it returns with the parser filled in.
ReadOutcomes ==
    {[raises |-> TRUE, parser |-> UnreadParser]}
    \cup [raises : {FALSE}, parser : ReadParsers]

\* RobotFileParser.can_fetch(user_agent, url).
ParserCanFetch(rp, user_agent, url) ==
    CASE rp.kind = "allow_all" -> TRUE
      [] rp.kind = "disallow_all" -> FALSE
      [] rp.kind = "rules" -> ~(user_agent \in rp.agents /\ url.path = "/list")
      [] OTHER -> FALSE

\* RobotFileParser.crawl_delay(user_agent); 0 stands for None.
ParserCrawlDelay(rp, user_agent) ==
    IF rp.kind = "rules" /\ user_agent \in rp.agents THEN rp.delay ELSE 0

\* The checker's three dictionaries and the request count, as one value.
RobotsState ==
    [cache |-> robots_cache, success |-> robots_read_success, requests |-> robotsRequests]

\* _get_robot_parser (robots_checker.py:43-80): on a cache miss one request
\* is made, its success or failure is recorded, and the parser is cached
\* either way.
GetRobotParserMut(st, url, outcome) ==
    LET domain == DomainOf(url)
    IN IF st.cache[domain] = NotCached
       THEN [cache |-> IF outcome.raises THEN st.cache
                       ELSE [st.cache EXCEPT ![domain] = outcome.parser],
             success |-> [st.success EXCEPT ![domain] = IF outcome.raises THEN "no" ELSE "yes"],
             requests |-> [st.requests EXCEPT ![domain] = @ + 1]]
       ELSE st

GetRobotParser(st, url, outcome) ==
    LET domain == DomainOf(url)
    IN IF st.cache[domain] = NotCached
       THEN [cache |-> [st.cache EXCEPT ![domain] =
                           IF outcome.raises THEN UnreadParser ELSE outcome.parser],
             success |-> [st.success EXCEPT ![domain] = IF outcome.raises THEN "no" ELSE "yes"],
             requests |-> [st.requests EXCEPT ![domain] = @ + 1]]
       ELSE st

\* The parser the call works with after _get_robot_parser returned
\* (robots_checker.py:80); the uncached parser of a failed read is unread.
ParserOf(st, url) ==
    IF st.cache[DomainOf(url)] = NotCached THEN UnreadParser ELSE st.cache[DomainOf(url)]

\* can_fetch (robots_checker.py:82-114): [result, state after the call].
CanFetchMut(st, url, user_agent, outcome) ==
    LET domain == DomainOf(url)
        after == GetRobotParser(st, url, outcome)
    IN IF st.success[domain] = "no"
       THEN [result |-> TRUE, state |-> st]
       ELSE [result |-> ParserCanFetch(ParserOf(after, url), user_agent, url), state |-> after]

CanFetch(st, url, user_agent, outcome) ==
    LET domain == DomainOf(url)
        after == GetRobotParser(st, url, outcome)
        allowed == ParserCanFetch(ParserOf(after, url), user_agent, url)
    IN IF st.success[domain] = "no"
       THEN [result |-> TRUE, state |-> st]
       ELSE IF ~allowed
            THEN [result |-> TRUE, state |-> after]
            ELSE [result |-> allowed, state |-> after]

\* return delay if delay else 1.0 (robots_checker.py:126).
DefaultCrawlDelay == 1

\* get_crawl_delay (robots_checker.py:116-128): [result, state after].
GetCrawlDelay(st, url, user_agent, outcome) ==
    LET after == GetRobotParser(st, url, outcome)
        delay == ParserCrawlDelay(ParserOf(after, url), user_agent)
    IN [result |-> IF delay # 0 THEN delay ELSE DefaultCrawlDelay, state |-> after]

\* The policy state a can_fetch call met: the read had failed or fails now
\* ("failed"), the parser allows the URL ("allowed") or not ("disallowed").
PolicyCase(st, url, user_agent, outcome) ==
    LET after == GetRobotParser(st, url, outcome)
    IN IF after.success[DomainOf(url)] = "no" THEN "failed"
       ELSE IF ParserCanFetch(ParserOf(after, url), user_agent, url) THEN "allowed"
       ELSE "disallowed"

SetRobotsState(st) ==
    /\ robots_cache' = st.cache
    /\ robots_read_success' = st.success
    /\ robotsRequests' = st.requests

\* A call of can_fetch(url, user_agent) on the checker.
CallCanFetch(url, user_agent, outcome) ==
    LET r == CanFetch(RobotsState, url, user_agent, outcome)
    IN /\ SetRobotsState(r.state)
       /\ robotsLast' = [op |-> "can_fetch", result |-> r.result, delay |-> 0,
                         case |-> PolicyCase(RobotsState, url, user_agent, outcome),
                         cached |-> robots_cache[DomainOf(url)] # NotCached]
       /\ UNCHANGED <<storeVars, crawlVars, fetchVars, schedVars, extractVars, aiVars>>

\* A call of get_crawl_delay(url, user_agent) on the checker.
CallGetCrawlDelay(url, user_agent, outcome) ==
    LET r == GetCrawlDelay(RobotsState, url, user_agent, outcome)
    IN /\ SetRobotsState(r.state)
       /\ robotsLast' = [op |-> "get_crawl_delay", result |-> TRUE, delay |-> r.result,
                         case |-> IF r.state.success[DomainOf(url)] = "no"
                                  THEN "failed" ELSE "read",
                         cached |-> robots_cache[DomainOf(url)] # NotCached]
       /\ UNCHANGED <<storeVars, crawlVars, fetchVars, schedVars, extractVars, aiVars>>

\* RobotsChecker.__init__ (robots_checker.py:12-15).
RobotsInit ==
    /\ robots_cache = [d \in Domains |-> NotCached]
    /\ robots_read_success = [d \in Domains |-> "unset"]
    /\ robotsRequests = [d \in Domains |-> 0]
    /\ robotsLast = [op |-> "none", result |-> TRUE, delay |-> 0, case |-> "none",
                     cached |-> FALSE]

\* What the robots-file request of a call on url can meet; a call on a
\* cached domain makes no request (robots_checker.py:48-49).
RequestOutcomes(url) ==
    IF robots_cache[DomainOf(url)] = NotCached
    THEN ReadOutcomes
    ELSE {[raises |-> TRUE, parser |-> UnreadParser]}

RobotsNext ==
    \/ \E url \in Urls, ua \in UserAgents : \E outcome \in RequestOutcomes(url) :
           CallCanFetch(url, ua, outcome)
    \/ \E url \in Urls, ua \in UserAgents : \E outcome \in RequestOutcomes(url) :
           CallGetCrawlDelay(url, ua, outcome)

(***************************************************************************)
(* The crawl, crawler.py:75-182                                            *)
(***************************************************************************)
\* The hrefs the modelled pages carry: a relative path, a bare fragment, an
\* excluded path, a mailto link, and absolute links to every network
\* location under both schemes.
CrawlHrefs ==
    {[scheme |-> "", netloc |-> NoNetloc, path |-> "/list", fragment |-> ""],
     [scheme |-> "", netloc |-> NoNetloc, path |-> "", fragment |-> "top"],
     [scheme |-> "", netloc |-> NoNetloc, path |-> "/login", fragment |-> ""],
     [scheme |-> "mailto", netloc |-> NoNetloc, path |-> "", fragment |-> ""]}
    \cup [scheme : Schemes, netloc : LinkHosts, path : {"/"}, fragment : {""}]

BoundedSeq(S, n) == UNION {[1..k -> S] : k \in 0..n}

\* What a fetch of a page can return as its anchors.
PageContents == BoundedSeq(CrawlHrefs, MaxAnchors)

\* The seeds and the URLs passed to crawl_url from outside.
SeedUrls == {u \in Urls : u.scheme = "https" /\ u.netloc = 1}

NoJob == [status |-> "none", pages_crawled |-> 0, error_message |-> ""]

\* link_limit = 100 if current_depth == 0 else 50 (crawler.py:150).
LinkLimitSeed == 100

LinkLimitDeeper == 50

\* Limits that let one more link through.
LinkLimitMut(depth) == IF depth = 0 THEN LinkLimitSeed + 1 ELSE LinkLimitDeeper + 1

LinkLimit(depth) == IF depth = 0 THEN LinkLimitSeed ELSE LinkLimitDeeper

Min(a, b) == IF a < b THEN a ELSE b

\* links[:link_limit] (crawler.py:150-151).
LinkSlice(links, depth) == SubSeq(links, 1, Min(Len(links), LinkLimit(depth)))

\* The link lists _extract_links can return for a page, over everything a
\* fetch of the page can return.
PageLinks == [u \in AllUrls |-> {ExtractLinks(html, u) : html \in PageContents}]

\* Rendering kept for one level more.
UseJsMut(depth) == depth <= 2

\* use_js = current_depth <= 1 (crawler.py:126).
UseJs(depth) == depth <= 1

\* crawl_seed_urls(seed_urls, max_depth=3) (crawler.py:166; scheduler.py:70).
DefaultMaxDepth == 3

\* self.crawl_delay = float(os.getenv("CRAWL_DELAY_SECONDS", "2"))
\* (crawler.py:22).
crawl_delay == 2

Max(a, b) == IF a > b THEN a ELSE b

\* n copies of x, one after the other.
Repeat(x, n) == [i \in 1..n |-> x]

RelHref(path) == [scheme |-> "", netloc |-> NoNetloc, path |-> path, fragment |-> ""]

AbsHref(scheme, path) == [scheme |-> scheme, netloc |-> 1, path |-> path, fragment |-> ""]

\* The sites with fixed pages.  "chain": every page links to one page not
\* met before, four levels deep.  "wide": the seed page carries one more
\* anchor than the seed's link limit and its first link one more than the
\* deeper limit, the anchor past the limit being the only one to its URL.
\* "full": the same pages with the last anchor at the limit.  "diamond": the
\* seed page links to /list and to the http root, /list links to the http
\* root too, and the http root to a page nothing else links to.
FixedSites == {"chain", "wide", "full", "diamond"}

\* The anchors of the page at url on a fixed site.
SiteHtml(s, url) ==
    IF s = "chain"
    THEN IF url.path = "/" THEN <<RelHref("/list")>>
         ELSE <<AbsHref("http", "/"), AbsHref("https", "/")>>
    ELSE IF s = "diamond"
    THEN IF url.scheme = "https" /\ url.path = "/"
         THEN <<RelHref("/list"), AbsHref("http", "/")>>
         ELSE IF url.scheme = "https" /\ url.path = "/list"
         THEN <<AbsHref("http", "/")>>
         ELSE IF url.scheme = "http" /\ url.path = "/"
         THEN <<RelHref("/list")>>
         ELSE <<>>
    ELSE LET spare == IF s = "wide" THEN 0 ELSE 1
         IN IF url.scheme = "https" /\ url.path = "/"
            THEN Repeat(RelHref("/list"), LinkLimitSeed - spare)
                     \o <<AbsHref("http", "/list")>>
            ELSE IF url.scheme = "https" /\ url.path = "/list"
            THEN Repeat(AbsHref("https", "/"), LinkLimitDeeper - spare)
                     \o <<AbsHref("http", "/")>>
            ELSE <<>>

\* The link lists _extract_links can return for the page at url: on the
\* site "any" whatever a page of MaxAnchors anchors gives, on a fixed site
\* the links of the page's anchors.
SiteLinks(s, url) ==
    IF s \in FixedSites THEN {ExtractLinks(SiteHtml(s, url), url)} ELSE PageLinks[url]

\* What a step did on the network: nothing, the politeness sleep, or a page
\* fetch, rendered or static, for extraction ("scrape") or for the links
\* ("links").  how is "get" for a static fetch and the way the rendered
\* fetch went otherwise; fetches counts the requests for a page issued
\* since the last sleep, and records is what extraction returned.
NoIo ==
    [op |-> "none", stage |-> "none", kind |-> "none", how |-> "none", html |-> FALSE,
     records |-> 0, seconds |-> 0, fetches |-> 0]

\* io is kept for the runs on the fixed sites; the runs on the site "any" go
\* without it.
Observed(step) == IF site \in FixedSites THEN step ELSE NoIo

Sleep(seconds) == [NoIo EXCEPT !.op = "sleep", !.seconds = seconds]

\* The fetches that put a request for the page on the network: a GET, and a
\* rendered fetch whose task got to page.goto.
IssuesRequest(how) == how \in {"get", "ran"}

Fetch(stage, kind, how, html, records) ==
    [op |-> "fetch", stage |-> stage, kind |-> kind, how |-> how, html |-> html,
     records |-> records, seconds |-> 0,
     fetches |-> io.fetches + (IF IssuesRequest(how) THEN 1 ELSE 0)]

\* One activation of crawl_url(url, max_depth, current_depth); todo is what
\* the loop over links[:link_limit] has still to go through, and root is the
\* URL of the outermost activation it descends from.
Frame(url, depth, root) ==
    [url |-> url, depth |-> depth, pc |-> "entry", todo |-> <<>>, pages |-> 0,
     root |-> root]

Top == stack[Len(stack)]

SetTop(f) == stack' = [stack EXCEPT ![Len(stack)] = f]

\* A caller that drops what the call on a link returned.
ReturnMut(v, line) ==
    IF Len(stack) = 1
    THEN /\ stack' = <<>>
         /\ lastReturn' = [value |-> v, line |-> line]
    ELSE /\ stack' = [SubSeq(stack, 1, Len(stack) - 1) EXCEPT
                         ![Len(stack) - 1] = [@ EXCEPT !.todo = Tail(@)]]
         /\ UNCHANGED lastReturn

\* return pages_crawled / return 0 at the given source line: the activation
\* ends and its caller adds the value (crawler.py:153) and moves to the next
\* link.
Return(v, line) ==
    IF Len(stack) = 1
    THEN /\ stack' = <<>>
         /\ lastReturn' = [value |-> v, line |-> line]
    ELSE /\ stack' = [SubSeq(stack, 1, Len(stack) - 1) EXCEPT
                         ![Len(stack) - 1] = [@ EXCEPT !.pages = @ + v, !.todo = Tail(@)]]
         /\ UNCHANGED lastReturn

\* A write that inserts a new job document each time.
UpdateCrawlJobMut(url, status, pages_crawled, error) ==
    /\ crawl_jobs' = [crawl_jobs EXCEPT ![url] =
          [status |-> status, pages_crawled |-> pages_crawled, error_message |-> error]]
    /\ jobCopies' = [jobCopies EXCEPT ![url] = @ + 1]

\* _update_crawl_job (crawler.py:75-89): update_one with the filter
\* {"url": url} and upsert=True sets the fields of the document of url, and
\* inserts that document when the collection holds none.
UpdateCrawlJob(url, status, pages_crawled, error) ==
    /\ crawl_jobs' = [crawl_jobs EXCEPT ![url] =
          [status |-> status, pages_crawled |-> pages_crawled, error_message |-> error]]
    /\ jobCopies' = [jobCopies EXCEPT ![url] = IF @ = 0 THEN 1 ELSE @]

\* A visited set kept per seed: it is emptied before each seed.
CrawlSeedMut(seed_url) ==
    /\ stack = <<>>
    /\ calls < MaxCalls
    /\ stack' = <<Frame(seed_url, 0, seed_url)>>
    /\ calls' = calls + 1
    /\ visited_urls' = {}
    /\ io' = NoIo
    /\ UNCHANGED <<crawl_jobs, jobCopies, use_playwright, browser,
                   scrapes, runningWrites, fetchDepths, lastReturn, robotsSkips>>
    /\ UNCHANGED <<max_depth, site, subtree>>
    /\ UNCHANGED <<storeVars, robotsVars, fetchVars, schedVars, extractVars, aiVars>>

\* for seed_url in seed_urls: self.crawl_url(seed_url, max_depth=max_depth)
\* (crawler.py:175-177): the next seed of a crawl_seed_urls call.
CrawlSeed(seed_url) ==
    /\ stack = <<>>
    /\ calls < MaxCalls
    /\ stack' = <<Frame(seed_url, 0, seed_url)>>
    /\ calls' = calls + 1
    /\ io' = NoIo
    /\ UNCHANGED <<visited_urls, crawl_jobs, jobCopies, use_playwright, browser,
                   scrapes, runningWrites, fetchDepths, lastReturn, robotsSkips>>
    /\ UNCHANGED <<max_depth, site, subtree>>
    /\ UNCHANGED <<storeVars, robotsVars, fetchVars, schedVars, extractVars, aiVars>>

\* crawl_url(url, max_depth, current_depth) is called from outside with a
\* depth of the caller's choice (crawler.py:91).
CallCrawlUrl(url, depth) ==
    /\ stack = <<>>
    /\ calls < MaxCalls
    /\ stack' = <<Frame(url, depth, url)>>
    /\ calls' = calls + 1
    /\ io' = NoIo
    /\ UNCHANGED <<visited_urls, crawl_jobs, jobCopies, use_playwright, browser,
                   scrapes, runningWrites, fetchDepths, lastReturn, robotsSkips>>
    /\ UNCHANGED <<max_depth, site, subtree>>
    /\ UNCHANGED <<storeVars, robotsVars, fetchVars, schedVars, extractVars, aiVars>>

\* The robots file the modelled crawl meets: one that disallows everything
\* (the other answers of a robots fetch are gone through in RobotsNext).
CrawlReadOutcomes ==
    {[raises |-> FALSE, parser |-> [kind |-> "disallow_all", agents |-> {}, delay |-> 0]]}

\* if current_depth > max_depth: return 0 (crawler.py:103-104).
DepthExceededMut(depth) == depth > max_depth + 1

DepthExceeded(depth) == depth > max_depth

\* if url in self.visited_urls: return 0 (crawler.py:106-107).
AlreadyVisitedMut(url) == FALSE

AlreadyVisited(url) == url \in visited_urls

\* The entry of crawl_url (crawler.py:103-123): the three guards, the
\* politeness sleep, the visited mark and the job written as running.
Enter(outcome) ==
    /\ stack # <<>>
    /\ Top.pc = "entry"
    /\ LET f == Top
           can == CanFetch(RobotsState, f.url, CrawlerAgent, outcome)
           del == GetCrawlDelay(can.state, f.url, CrawlerAgent, outcome)
       IN IF DepthExceeded(f.depth) \/ AlreadyVisited(f.url)
          THEN /\ Return(0, IF DepthExceeded(f.depth) THEN 104 ELSE 107)
               /\ io' = NoIo
               /\ UNCHANGED <<visited_urls, crawl_jobs, jobCopies, runningWrites, robotsSkips>>
               /\ UNCHANGED <<robots_cache, robots_read_success, robotsRequests>>
          ELSE IF ~can.result
          THEN /\ Return(0, 112)
               /\ io' = NoIo
               /\ SetRobotsState(can.state)
               /\ robotsSkips' = robotsSkips + 1
               /\ UNCHANGED <<visited_urls, crawl_jobs, jobCopies, runningWrites>>
          ELSE /\ SetRobotsState(del.state)
               /\ io' = Observed(Sleep(Max(del.result, crawl_delay)))
               /\ visited_urls' = visited_urls \cup {f.url}
               /\ UpdateCrawlJob(f.url, "running", 0, "")
               /\ runningWrites' = [runningWrites EXCEPT ![f.url] = @ + 1]
               /\ SetTop([f EXCEPT !.pc = "scrape"])
               /\ UNCHANGED <<lastReturn, robotsSkips>>
    /\ UNCHANGED <<use_playwright, browser, calls, scrapes, fetchDepths>>
    /\ UNCHANGED <<max_depth, site, subtree>>
    /\ UNCHANGED <<storeVars, robotsLast, fetchVars, schedVars, extractVars, aiVars>>

\* _fetch_with_playwright as the crawl thread sees it (scraper.py:104-118,
\* 74-102, 37-46): what one call can return and leave behind.  No task is
\* submitted once use_playwright is false; a task that finds no browser
\* launches one, and a failed launch clears use_playwright; any other
\* failure returns None.  A task can outlast the caller's 90 s wait: the
\* caller gets None, and the task goes on to launch the browser, or to fail
\* to, or is still short of either.
RenderedFetch ==
    IF ~use_playwright
    THEN {[html |-> FALSE, submitted |-> FALSE, how |-> "disabled",
           use_playwright |-> FALSE, browser |-> browser]}
    ELSE [html : BOOLEAN, submitted : {TRUE}, how : {"ran"},
          use_playwright : {TRUE}, browser : {"open"}]
         \cup {[html |-> FALSE, submitted |-> TRUE, how |-> "timeout",
                use_playwright |-> TRUE, browser |-> b] : b \in {browser, "open"}}
         \cup (IF browser = "none"
               THEN [html : {FALSE}, submitted : {TRUE}, how : {"launch_failed", "timeout"},
                     use_playwright : {FALSE}, browser : {"none"}]
               ELSE {})

SetScraper(r) ==
    /\ use_playwright' = r.use_playwright
    /\ browser' = r.browser

\* if current_depth < max_depth (crawler.py:135).
DiscoversLinksMut(depth) == TRUE

\* Links followed at max_depth too.
DiscoversLinksAtMaxMut(depth) == depth <= max_depth

DiscoversLinks(depth) == depth < max_depth

\* The page fetch of scrape (scraper.py:319-327): a rendered fetch when
\* use_js and use_playwright, a GET otherwise; what it returned, and what it
\* left of the scraper.
ScrapeFetches(depth) ==
    IF UseJs(depth) /\ use_playwright
    THEN {[kind |-> "rendered", how |-> r.how, html |-> r.html,
           use_playwright |-> r.use_playwright, browser |-> r.browser] :
              r \in RenderedFetch}
    ELSE [kind : {"static"}, how : {"get"}, html : BOOLEAN,
          use_playwright : {use_playwright}, browser : {browser}]

\* if not html_content: return [] (scraper.py:326-327); else what
\* _extract_structured_data returns (329-330, 348).
ScrapeRecords(html) == IF html THEN 0..MaxPageRecords ELSE {0}

\* The pages scraped under the activations on the stack, with one more.
AddToSubtrees(url) ==
    [u \in AllUrls |->
        IF \E i \in 1..Len(stack) : stack[i].url = u /\ stack[i].pc # "entry"
        THEN subtree[u] \cup {url} ELSE subtree[u]]

\* records = self.scraper.scrape(url, use_js=use_js); pages_crawled = 1
\* (crawler.py:126-130; scraper.py:319-348): the page fetch, then the
\* records extracted from what it returned; `raises` is an exception out of
\* scrape.  The records it saves go through the save loop modelled above.
Scrape ==
    /\ stack # <<>>
    /\ Top.pc = "scrape"
    /\ LET f == Top
       IN /\ \E fetched \in ScrapeFetches(f.depth), raises \in BOOLEAN :
                /\ SetScraper(fetched)
                /\ IF raises
                   THEN /\ SetTop([f EXCEPT !.pc = "except"])
                        /\ io' = Observed(Fetch("scrape", fetched.kind, fetched.how,
                                                fetched.html, 0))
                        /\ UNCHANGED subtree
                   ELSE /\ SetTop([f EXCEPT !.pages = 1,
                                             !.pc = IF DiscoversLinks(f.depth)
                                                    THEN "links" ELSE "complete"])
                        /\ \E n \in ScrapeRecords(fetched.html) :
                              io' = Observed(Fetch("scrape", fetched.kind, fetched.how,
                                                   fetched.html, n))
                        /\ subtree' = AddToSubtrees(f.url)
          /\ fetchDepths' = fetchDepths \cup {f.depth}
          /\ scrapes' = [scrapes EXCEPT ![f.url] = @ + 1]
    /\ UNCHANGED <<visited_urls, crawl_jobs, jobCopies, calls, runningWrites, lastReturn,
                   robotsSkips, max_depth, site>>
    /\ UNCHANGED <<storeVars, robotsVars, fetchVars, schedVars, extractVars, aiVars>>

\* links = self._extract_links(html_content, url), or an exception out of it
\* (crawler.py:145-147, 159).
TakeLinks ==
    \/ SetTop([Top EXCEPT !.pc = "except"])
    \/ \E links \in SiteLinks(site, Top.url) :
          SetTop([Top EXCEPT !.todo = LinkSlice(links, Top.depth), !.pc = "loop"])

\* No second fetch: a rendered fetch without content ends link discovery.
LinkFetchRenderedMut ==
    /\ stack # <<>>
    /\ Top.pc = "links"
    /\ UseJs(Top.depth)
    /\ \E r \in RenderedFetch :
          /\ SetScraper(r)
          /\ io' = Observed(Fetch("links", "rendered", r.how, r.html, 0))
          /\ fetchDepths' = IF r.submitted THEN fetchDepths \cup {Top.depth}
                            ELSE fetchDepths
          /\ IF r.html
             THEN TakeLinks
             ELSE SetTop([Top EXCEPT !.pc = "complete"])
    /\ UNCHANGED <<visited_urls, crawl_jobs, jobCopies, calls, scrapes, runningWrites,
                   lastReturn, robotsSkips, max_depth, site, subtree>>
    /\ UNCHANGED <<storeVars, robotsVars, fetchVars, schedVars, extractVars, aiVars>>

\* if use_js: html_content = self.scraper._fetch_with_playwright(url)
\* (crawler.py:137-139), then the links of what it returned (145-147).
LinkFetchRendered ==
    /\ stack # <<>>
    /\ Top.pc = "links"
    /\ UseJs(Top.depth)
    /\ \E r \in RenderedFetch :
          /\ SetScraper(r)
          /\ io' = Observed(Fetch("links", "rendered", r.how, r.html, 0))
          /\ fetchDepths' = IF r.submitted THEN fetchDepths \cup {Top.depth}
                            ELSE fetchDepths
          /\ IF r.html
             THEN TakeLinks
             ELSE SetTop([Top EXCEPT !.pc = "links_static"])
    /\ UNCHANGED <<visited_urls, crawl_jobs, jobCopies, calls, scrapes, runningWrites,
                   lastReturn, robotsSkips, max_depth, site, subtree>>
    /\ UNCHANGED <<storeVars, robotsVars, fetchVars, schedVars, extractVars, aiVars>>

\* if not html_content: html_content = self.scraper._fetch_html(url)
\* (crawler.py:142-147, 154-155); the GET returns a body or None.
LinkFetchStatic ==
    /\ stack # <<>>
    /\ \/ Top.pc = "links_static"
       \/ Top.pc = "links" /\ ~UseJs(Top.depth)
    /\ fetchDepths' = fetchDepths \cup {Top.depth}
    /\ \/ /\ SetTop([Top EXCEPT !.pc = "complete"])
          /\ io' = Observed(Fetch("links", "static", "get", FALSE, 0))
       \/ /\ TakeLinks
          /\ io' = Observed(Fetch("links", "static", "get", TRUE, 0))
    /\ UNCHANGED <<visited_urls, crawl_jobs, jobCopies, use_playwright, browser, calls,
                   scrapes, runningWrites, lastReturn, robotsSkips,
                   max_depth, site, subtree>>
    /\ UNCHANGED <<storeVars, robotsVars, fetchVars, schedVars, extractVars, aiVars>>

\* for link in links[:link_limit]: if link not in self.visited_urls:
\* pages_crawled += self.crawl_url(link, max_depth, current_depth + 1)
\* (crawler.py:151-153): the call.
LoopRecurse ==
    /\ stack # <<>>
    /\ Top.pc = "loop"
    /\ Top.todo # <<>>
    /\ Head(Top.todo) \notin visited_urls
    /\ stack' = Append(stack, Frame(Head(Top.todo), Top.depth + 1, Top.root))
    /\ io' = NoIo
    /\ UNCHANGED <<visited_urls, crawl_jobs, jobCopies, use_playwright, browser, calls,
                   scrapes, runningWrites, fetchDepths, lastReturn, robotsSkips>>
    /\ UNCHANGED <<max_depth, site, subtree>>
    /\ UNCHANGED <<storeVars, robotsVars, fetchVars, schedVars, extractVars, aiVars>>

\* crawler.py:152: the link is in visited_urls and is passed over.
LoopSkip ==
    /\ stack # <<>>
    /\ Top.pc = "loop"
    /\ Top.todo # <<>>
    /\ Head(Top.todo) \in visited_urls
    /\ SetTop([Top EXCEPT !.todo = Tail(@)])
    /\ io' = NoIo
    /\ UNCHANGED <<visited_urls, crawl_jobs, jobCopies, use_playwright, browser, calls,
                   scrapes, runningWrites, fetchDepths, lastReturn, robotsSkips>>
    /\ UNCHANGED <<max_depth, site, subtree>>
    /\ UNCHANGED <<storeVars, robotsVars, fetchVars, schedVars, extractVars, aiVars>>

\* A return that leaves the job of the URL as it is.
CompleteMut ==
    /\ stack # <<>>
    /\ \/ Top.pc = "complete"
       \/ Top.pc = "loop" /\ Top.todo = <<>>
    /\ Return(Top.pages, 164)
    /\ io' = NoIo
    /\ UNCHANGED <<visited_urls, crawl_jobs, jobCopies, use_playwright, browser, calls, scrapes,
                   runningWrites, fetchDepths, robotsSkips>>
    /\ UNCHANGED <<max_depth, site, subtree>>
    /\ UNCHANGED <<storeVars, robotsVars, fetchVars, schedVars, extractVars, aiVars>>

\* self._update_crawl_job(url, "completed", pages_crawled); return
\* pages_crawled (crawler.py:157, 164).
Complete ==
    /\ stack # <<>>
    /\ \/ Top.pc = "complete"
       \/ Top.pc = "loop" /\ Top.todo = <<>>
    /\ UpdateCrawlJob(Top.url, "completed", Top.pages, "")
    /\ Return(Top.pages, 164)
    /\ io' = NoIo
    /\ UNCHANGED <<visited_urls, use_playwright, browser, calls, scrapes,
                   runningWrites, fetchDepths, robotsSkips>>
    /\ UNCHANGED <<max_depth, site, subtree>>
    /\ UNCHANGED <<storeVars, robotsVars, fetchVars, schedVars, extractVars, aiVars>>

\* str(e) of the exceptions the modelled scrape, fetch and link extraction
\* raise (crawler.py:160).
ErrorMsg == "error"

\* No handler at the URL: the exception goes on to the caller, which is the
\* activation one level up or the code that called crawl_url.
ExceptMut ==
    /\ stack # <<>>
    /\ Top.pc = "except"
    /\ IF Len(stack) = 1
       THEN /\ stack' = <<>>
            /\ lastReturn' = [value |-> 0, line |-> 0]
       ELSE /\ stack' = [SubSeq(stack, 1, Len(stack) - 1) EXCEPT
                            ![Len(stack) - 1] = [@ EXCEPT !.pc = "except"]]
            /\ UNCHANGED lastReturn
    /\ io' = NoIo
    /\ UNCHANGED <<visited_urls, crawl_jobs, jobCopies, use_playwright, browser, calls, scrapes,
                   runningWrites, fetchDepths, robotsSkips>>
    /\ UNCHANGED <<max_depth, site, subtree>>
    /\ UNCHANGED <<storeVars, robotsVars, fetchVars, schedVars, extractVars, aiVars>>

\* except Exception as e: self._update_crawl_job(url, "failed",
\* pages_crawled, error_msg); return pages_crawled (crawler.py:159-164).
Except ==
    /\ stack # <<>>
    /\ Top.pc = "except"
    /\ UpdateCrawlJob(Top.url, "failed", Top.pages, ErrorMsg)
    /\ Return(Top.pages, 164)
    /\ io' = NoIo
    /\ UNCHANGED <<visited_urls, use_playwright, browser, calls, scrapes,
                   runningWrites, fetchDepths, robotsSkips>>
    /\ UNCHANGED <<max_depth, site, subtree>>
    /\ UNCHANGED <<storeVars, robotsVars, fetchVars, schedVars, extractVars, aiVars>>

\* WebCrawler.__init__ and WebScraper.__init__, for a crawler whose calls are
\* made with max_depth = depth on the site s.
CrawlerInit(depth, s) ==
    /\ max_depth = depth
    /\ site = s
    /\ io = NoIo
    /\ subtree = [u \in AllUrls |-> {}]
    /\ visited_urls = {}
    /\ stack = <<>>
    /\ crawl_jobs = [u \in AllUrls |-> NoJob]
    /\ jobCopies = [u \in AllUrls |-> 0]
    /\ use_playwright = TRUE
    /\ browser = "none"
    /\ calls = 0
    /\ scrapes = [u \in AllUrls |-> 0]
    /\ runningWrites = [u \in AllUrls |-> 0]
    /\ fetchDepths = {}
    /\ lastReturn = [value |-> 0, line |-> 0]
    /\ robotsSkips = 0

\* Calls made with max_depth = MaxDepth on a site whose pages can carry any
\* anchors.
CrawlInit == CrawlerInit(MaxDepth, "any")

\* The steps of the calls in progress.
CrawlRun ==
    \/ \E outcome \in CrawlReadOutcomes : Enter(outcome)
    \/ Scrape
    \/ LinkFetchRendered
    \/ LinkFetchStatic
    \/ LoopRecurse
    \/ LoopSkip
    \/ Complete
    \/ Except

\* One crawl_url(seed) call on a new crawler.
CrawlOnceNext ==
    \/ \E seed_url \in SeedUrls : calls = 0 /\ CrawlSeed(seed_url)
    \/ CrawlRun

CrawlNext ==
    \/ \E seed_url \in SeedUrls : CrawlSeed(seed_url)
    \/ \E url \in SeedUrls, depth \in 1..(MaxDepth + 1) : CallCrawlUrl(url, depth)
    \/ CrawlRun

(***************************************************************************)
(* Records and the duplicate lookup, scraper.py:332-346                    *)
(***************************************************************************)
\* A field the record does not carry (record.get(field) is falsy); names and
\* phones are numbered from 1.
Absent == 0

SourceUrls == {"https://a.edu/list", "https://a.edu/staff"}

Names == 1..MaxNames

Phones == {1, 2}

\* The fields of a record that the duplicate lookup reads; scraped_at, the
\* metadata mapping and the other fields never enter the query.
\* The list page carries one phone number, the staff page two.
Records ==
    {d \in [source_url : SourceUrls, name : Names \cup {Absent},
            phone : Phones \cup {Absent}] :
        d.phone = 2 => d.source_url = "https://a.edu/staff"}

AllRuns == {"manual", "tick"}

\* query = {"source_url": ...}; plus name if the record has one, else plus
\* phone if it has one (scraper.py:336-340).  Absent marks a field the query
\* does not constrain.
BuildQueryMut(record) ==
    [source_url |-> record.source_url, name |-> record.name, phone |-> record.phone]

BuildQuery(record) ==
    [source_url |-> record.source_url,
     name |-> record.name,
     phone |-> IF record.name # Absent THEN Absent ELSE record.phone]

\* A match that takes the query for the whole document.
MatchesMut(query, doc) == doc = query

\* The store's filter match: every field of the query equals the document's
\* field; a document without the field does not match.
Matches(query, doc) ==
    /\ doc.source_url = query.source_url
    /\ query.name # Absent => doc.name = query.name
    /\ query.phone # Absent => doc.phone = query.phone

\* collection.find_one(query), as the truth value the caller tests.
FindOneMut(coll, query) ==
    \E doc \in Records : coll[doc] > 1 /\ Matches(query, doc)

FindOne(coll, query) ==
    \E doc \in Records : coll[doc] > 0 /\ Matches(query, doc)

\* collection.insert_one(record): one more copy of the document.
InsertOne(coll, record) ==
    [coll EXCEPT ![record] = @ + 1]

\* The loop variable between two records of the save loop.
NoRecord == [source_url |-> "", name |-> Absent, phone |-> Absent]

\* scraper.py:342: existing = self.collection.find_one(query), for the next
\* record of the page being saved.
SaveFind(r, record) ==
    /\ r \in runs
    /\ record.source_url \in pages
    /\ runPc[r] = "idle"
    /\ runPc' = [runPc EXCEPT ![r] = "found"]
    /\ runRec' = [runRec EXCEPT ![r] = record]
    /\ runExisting' = [runExisting EXCEPT ![r] = FindOne(collection, BuildQuery(record))]
    /\ UNCHANGED <<collection, runs, runFailed, runErrors, pages>>
    /\ UNCHANGED <<robotsVars, crawlVars, fetchVars, schedVars, extractVars, aiVars>>

\* scraper.py:343-344: if not existing: insert_one(record).
SaveInsert(r) ==
    /\ r \in runs
    /\ runPc[r] = "found"
    /\ ~runExisting[r]
    /\ collection' = InsertOne(collection, runRec[r])
    /\ runPc' = [runPc EXCEPT ![r] = "idle"]
    /\ runRec' = [runRec EXCEPT ![r] = NoRecord]
    /\ UNCHANGED <<runs, runExisting, runFailed, runErrors, pages>>
    /\ UNCHANGED <<robotsVars, crawlVars, fetchVars, schedVars, extractVars, aiVars>>

\* scraper.py:343: existing is truthy, the record is skipped.
SaveSkip(r) ==
    /\ r \in runs
    /\ runPc[r] = "found"
    /\ runExisting[r]
    /\ runPc' = [runPc EXCEPT ![r] = "idle"]
    /\ runRec' = [runRec EXCEPT ![r] = NoRecord]
    /\ runExisting' = [runExisting EXCEPT ![r] = FALSE]
    /\ UNCHANGED <<collection, runs, runFailed, runErrors, pages>>
    /\ UNCHANGED <<robotsVars, crawlVars, fetchVars, schedVars, extractVars, aiVars>>

\* No handler inside the loop: what the store raises leaves scrape.
SaveCatchesMut == FALSE

\* except Exception (scraper.py:345): whether the handler around one record's
\* lookup and insert catches what the store raises.
SaveCatches == TRUE

\* scraper.py:342 or 344 raises (the store is unreachable, a write error):
\* the handler at 345-346 prints and the loop goes on with the next record.
SaveError(r) ==
    /\ r \in runs
    /\ runErrors[r] < MaxErrors
    /\ \/ runPc[r] = "idle"
       \/ runPc[r] = "found" /\ ~runExisting[r]
    /\ runErrors' = [runErrors EXCEPT ![r] = @ + 1]
    /\ runPc' = [runPc EXCEPT ![r] = IF SaveCatches THEN "idle" ELSE "raised"]
    /\ runFailed' = [runFailed EXCEPT ![r] = ~SaveCatches]
    /\ runRec' = [runRec EXCEPT ![r] = NoRecord]
    /\ runExisting' = [runExisting EXCEPT ![r] = FALSE]
    /\ UNCHANGED <<collection, runs, pages>>
    /\ UNCHANGED <<robotsVars, crawlVars, fetchVars, schedVars, extractVars, aiVars>>

StoreInit(active, scraped) ==
    /\ collection = [d \in Records |-> 0]
    /\ runs = active
    /\ pages = scraped
    /\ runPc = [r \in AllRuns |-> "idle"]
    /\ runRec = [r \in AllRuns |-> NoRecord]
    /\ runExisting = [r \in AllRuns |-> FALSE]
    /\ runFailed = [r \in AllRuns |-> FALSE]
    /\ runErrors = [r \in AllRuns |-> 0]

\* The store part when no run is saving.
StoreIdle == StoreInit({}, {})

StoreNext ==
    \/ \E r \in AllRuns, record \in Records : SaveFind(r, record)
    \/ \E r \in AllRuns : SaveInsert(r)
    \/ \E r \in AllRuns : SaveSkip(r)
    \/ \E r \in AllRuns : SaveError(r)

(***************************************************************************)
(* Rendered fetches and the executor, scraper.py:33-46 and 74-118          *)
(***************************************************************************)
Callers == 1..MaxCallers

Tasks == 1..MaxTasks

NoTask == 0

\* ThreadPoolExecutor(max_workers=1, ...) (scraper.py:34).
max_workers == 1

WorkersMut == 1..(max_workers + 1)

Workers == 1..max_workers

\* The rest of the scraper and of the crawler is left alone by a rendered
\* fetch.
FetchFrame ==
    /\ UNCHANGED <<visited_urls, stack, crawl_jobs, jobCopies, calls, scrapes, runningWrites,
                   fetchDepths, lastReturn, robotsSkips, max_depth, site, io, subtree>>
    /\ UNCHANGED <<storeVars, robotsVars, schedVars, extractVars, aiVars>>

\* if not self.use_playwright: return None (scraper.py:106-107).
CallFetch(c) ==
    /\ cleanupPc = "none"
    /\ callerPc[c] = "idle"
    /\ submitted < MaxTasks
    /\ callerPc' = [callerPc EXCEPT ![c] = IF use_playwright THEN "submit" ELSE "idle"]
    /\ UNCHANGED <<callerTask, queue, workerTask, taskPc, submitted, failures>>
    /\ UNCHANGED <<use_playwright, browser>>
    /\ UNCHANGED cleanupPc
    /\ UNCHANGED taskPage
    /\ FetchFrame

\* future = self.executor.submit(self._fetch_with_playwright_sync, url)
\* (scraper.py:111).
Submit(c) ==
    /\ callerPc[c] = "submit"
    /\ submitted < MaxTasks
    /\ submitted' = submitted + 1
    /\ taskPc' = [taskPc EXCEPT ![submitted + 1] = "queued"]
    /\ queue' = Append(queue, submitted + 1)
    /\ callerTask' = [callerTask EXCEPT ![c] = submitted + 1]
    /\ callerPc' = [callerPc EXCEPT ![c] = "wait"]
    /\ UNCHANGED <<workerTask, failures>>
    /\ UNCHANGED <<use_playwright, browser>>
    /\ UNCHANGED cleanupPc
    /\ UNCHANGED taskPage
    /\ FetchFrame

\* An idle worker of the executor takes the oldest queued task and enters
\* _fetch_with_playwright_sync (scraper.py:74-76).
WorkerTake(w) ==
    /\ workerTask[w] = NoTask
    /\ queue # <<>>
    /\ workerTask' = [workerTask EXCEPT ![w] = Head(queue)]
    /\ queue' = Tail(queue)
    /\ taskPc' = [taskPc EXCEPT ![Head(queue)] = "init"]
    /\ UNCHANGED <<callerPc, callerTask, submitted, failures>>
    /\ UNCHANGED <<use_playwright, browser>>
    /\ UNCHANGED cleanupPc
    /\ UNCHANGED taskPage
    /\ FetchFrame

\* if self.browser is None: self._init_playwright(); if not self.browser:
\* return None (scraper.py:78-82, 37-46).  A launch is tried when there is no
\* browser and use_playwright holds; a failed launch clears use_playwright.
TaskInit(w, launches) ==
    /\ workerTask[w] # NoTask
    /\ taskPc[workerTask[w]] = "init"
    /\ LET t == workerTask[w]
           tries == browser = "none" /\ use_playwright
       IN /\ browser' = IF tries /\ launches THEN "open" ELSE browser
          /\ use_playwright' = IF tries /\ ~launches THEN FALSE ELSE use_playwright
          /\ IF browser' = "none"
             THEN /\ taskPc' = [taskPc EXCEPT ![t] = IF tries THEN "launch_failed"
                                                     ELSE "no_browser"]
                  /\ workerTask' = [workerTask EXCEPT ![w] = NoTask]
             ELSE /\ taskPc' = [taskPc EXCEPT ![t] = "fetch"]
                  /\ UNCHANGED workerTask
    /\ UNCHANGED <<callerPc, callerTask, queue, submitted, failures>>
    /\ UNCHANGED cleanupPc
    /\ UNCHANGED taskPage
    /\ FetchFrame

\* How the body of a rendered fetch can go once there is a browser
\* (scraper.py:84-102): new_page() raises and no page exists; a call on the
\* page raises (set_extra_http_headers 86, goto 94 with its 60 s timeout,
\* wait_for_timeout 96, content 97, close 98) and the handler at 100-102
\* returns None; or every call returns and the content is returned.
FetchOutcomes == {"content", "no_page", "page_raises"}

\* What has become of the page of a fetch that went that way: page.close()
\* (scraper.py:98) is the last statement of the try block and the handler
\* (100-102) closes nothing.
PageAfter(how) ==
    CASE how = "content" -> "closed"
      [] how = "no_page" -> "none"
      [] how = "page_raises" -> "open"

\* page = self.browser.new_page() ... return content, or an exception and
\* return None (scraper.py:84-102).
TaskFetch(w, how) ==
    /\ workerTask[w] # NoTask
    /\ taskPc[workerTask[w]] = "fetch"
    /\ taskPc' = [taskPc EXCEPT ![workerTask[w]] = IF how = "content" THEN "content"
                                                   ELSE "error"]
    /\ taskPage' = [taskPage EXCEPT ![workerTask[w]] = PageAfter(how)]
    /\ workerTask' = [workerTask EXCEPT ![w] = NoTask]
    /\ UNCHANGED <<callerPc, callerTask, queue, submitted, failures>>
    /\ UNCHANGED <<use_playwright, browser>>
    /\ UNCHANGED cleanupPc
    /\ FetchFrame

\* The task has returned.
TaskDone(t) == taskPc[t] \in {"content", "error", "launch_failed", "no_browser"}

\* return future.result(timeout=90) (scraper.py:112): the task returned.
ResultReturns(c) ==
    /\ callerPc[c] = "wait"
    /\ TaskDone(callerTask[c])
    /\ callerPc' = [callerPc EXCEPT ![c] = "idle"]
    /\ callerTask' = [callerTask EXCEPT ![c] = NoTask]
    /\ failures' = IF taskPc[callerTask[c]] = "launch_failed"
                   THEN failures \cup {"launch_failed"} ELSE failures
    /\ UNCHANGED <<queue, workerTask, taskPc, submitted>>
    /\ UNCHANGED <<use_playwright, browser>>
    /\ UNCHANGED cleanupPc
    /\ UNCHANGED taskPage
    /\ FetchFrame

\* except concurrent.futures.TimeoutError: return None (scraper.py:113-115):
\* the 90 s pass with the task queued or running; the task is left where it
\* is.
ResultTimesOut(c) ==
    /\ callerPc[c] = "wait"
    /\ ~TaskDone(callerTask[c])
    /\ callerPc' = [callerPc EXCEPT ![c] = "idle"]
    /\ callerTask' = [callerTask EXCEPT ![c] = NoTask]
    /\ failures' = failures \cup {"timeout"}
    /\ UNCHANGED <<queue, workerTask, taskPc, submitted>>
    /\ UNCHANGED <<use_playwright, browser>>
    /\ UNCHANGED cleanupPc
    /\ UNCHANGED taskPage
    /\ FetchFrame

\* The executor part of WebScraper.__init__ (scraper.py:33-35).
FetcherInit ==
    /\ callerPc = [c \in Callers |-> "idle"]
    /\ callerTask = [c \in Callers |-> NoTask]
    /\ queue = <<>>
    /\ workerTask = [w \in Workers |-> NoTask]
    /\ taskPc = [t \in Tasks |-> "none"]
    /\ submitted = 0
    /\ failures = {}
    /\ taskPage = [t \in Tasks |-> "none"]
    /\ cleanupPc = "none"

\* self._close_playwright() (scraper.py:352, 48-62), called by the owner once
\* its crawl is over and no thread is inside _fetch_with_playwright: under the
\* lock, the browser is closed, and its pages with it, and self.browser set
\* to None.  Tasks whose
\* caller gave up after 90 s can still be queued or running.
CleanupClose ==
    /\ cleanupPc = "none"
    /\ \A c \in Callers : callerPc[c] = "idle"
    /\ cleanupPc' = "draining"
    /\ browser' = "none"
    /\ UNCHANGED <<callerPc, callerTask, queue, workerTask, taskPc, submitted, failures>>
    /\ UNCHANGED use_playwright
    /\ taskPage' = [t \in Tasks |-> IF taskPage[t] = "open" THEN "closed"
                                      ELSE taskPage[t]]
    /\ FetchFrame

\* self.executor.shutdown(wait=True) returns (scraper.py:353-354): the queue
\* is empty and no worker is inside a task; the tasks that were pending have
\* run.  self.session.close() follows (355).
CleanupDrain ==
    /\ cleanupPc = "draining"
    /\ queue = <<>>
    /\ \A w \in Workers : workerTask[w] = NoTask
    /\ cleanupPc' = "done"
    /\ UNCHANGED <<callerPc, callerTask, queue, workerTask, taskPc, submitted, failures>>
    /\ UNCHANGED <<use_playwright, browser>>
    /\ UNCHANGED taskPage
    /\ FetchFrame

FetcherNext ==
    \/ \E c \in Callers : CallFetch(c)
    \/ \E c \in Callers : Submit(c)
    \/ \E w \in Workers : WorkerTake(w)
    \/ \E w \in Workers, launches \in BOOLEAN : TaskInit(w, launches)
    \/ \E w \in Workers, how \in FetchOutcomes : TaskFetch(w, how)
    \/ \E c \in Callers : ResultReturns(c)
    \/ \E c \in Callers : ResultTimesOut(c)
    \/ CleanupClose
    \/ CleanupDrain

(***************************************************************************)
(* The scheduler, scheduler.py:13-130, and POST /api/crawl/trigger,        *)
(* routes.py:125-143                                                       *)
(***************************************************************************)
\* self.seed_urls (scheduler.py:22-26), numbered.
seed_urls == [i \in 1..MaxSchedSeeds |-> i]

Seeds == {seed_urls[i] : i \in 1..Len(seed_urls)}

\* The URLs a manual trigger can name: the seeds and one URL that is no seed.
SchedUrls == 1..(MaxSchedSeeds + 1)

\* A crawl_jobs document as the scheduler reads it: absent, with a null
\* last_crawled, or with the hour of its last write.
JobDocs ==
    {[kind |-> "absent", at |-> 0], [kind |-> "null", at |-> 0]}
    \cup [kind : {"time"}, at : 0..MaxTime]

RECURSIVE SortedSeq(_)
SortedSeq(S) ==
    IF S = {} THEN <<>>
    ELSE LET m == CHOOSE x \in S : \A y \in S : x <= y
         IN <<m>> \o SortedSeq(S \ {m})

\* The urls argument of a manual trigger: omitted (None), or a list.
UrlLists == {SortedSeq(S) : S \in SUBSET SchedUrls}

\* The threads of the scheduler's executor that can run the periodic job.
TickThreads == {"tick1", "tick2"}

\* The application thread that calls start and serves trigger requests.
AppThreads == {"app"}

Runners == TickThreads \cup AppThreads

\* add_job(...) without max_instances (scheduler.py:90-97): one running
\* instance of the job at most.
max_instances == 1

\* A thread in no crawl run; crawler is the WebCrawler of its last run:
\* "none" when none was constructed, "open" until cleanup() has closed it;
\* ended is where an exception of its last call went: "none" when there was
\* none, "caught" in the handler of _crawl_job, "raised" to the caller.
IdleRunner ==
    [pc |-> "idle", mode |-> "none", given |-> <<>>, todo |-> <<>>, crawler |-> "none",
     ended |-> "none"]

\* A manual trigger that lets every failure through.
PropagatesMut(mode, given) == mode = "manual"

\* trigger_manual_crawl with urls constructs the crawler and calls
\* crawl_seed_urls with no handler around them (scheduler.py:123-127); every
\* other run is inside the try of _crawl_job (41-79).
Propagates(mode, given) == mode = "manual" /\ given # <<>>

\* Where an exception of a call made in that mode ends.
Ended(mode, given) == IF Propagates(mode, given) THEN "raised" ELSE "caught"

\* hours_since_crawl >= self.crawl_interval_hours (scheduler.py:59-61).
IntervalElapsedMut(last_crawled) == clock - last_crawled > crawl_interval_hours

IntervalElapsed(last_crawled) == clock - last_crawled >= crawl_interval_hours

\* A due check that reads the status: a job that is not completed is due.
NeedsCrawlMut(seed_url) ==
    LET job == seedJobs[seed_url]
    IN IF job.kind = "time"
       THEN job.status # "completed" \/ IntervalElapsed(job.at)
       ELSE TRUE

\* The normal-mode branch of the loop over the seeds (scheduler.py:50-64).
NeedsCrawl(seed_url) ==
    LET job == seedJobs[seed_url]
    IN IF job.kind = "absent"
       THEN TRUE
       ELSE IF job.kind = "time"
            THEN IntervalElapsed(job.at)
            ELSE TRUE

\* The force_all argument left out of the selection.
UrlsToCrawlMut(force_all) == SelectSeq(seed_urls, NeedsCrawl)

\* urls_to_crawl as the loop builds it (scheduler.py:43-64).
UrlsToCrawl(force_all) ==
    LET Takes(seed_url) == force_all \/ NeedsCrawl(seed_url)
    IN SelectSeq(seed_urls, Takes)

\* if urls_to_crawl: crawler = WebCrawler(); crawler.crawl_seed_urls(...)
\* else: nothing to crawl (scheduler.py:66-74): thread r enters _crawl_job.
CrawlJob(r, mode, given, force_all) ==
    LET urls_to_crawl == UrlsToCrawl(force_all)
    IN runner' = [runner EXCEPT ![r] =
           IF urls_to_crawl # <<>>
           THEN [pc |-> "crawl", mode |-> mode, given |-> given, todo |-> urls_to_crawl,
                 crawler |-> "open", ended |-> "none"]
           ELSE IdleRunner]

SchedFrame == UNCHANGED <<storeVars, robotsVars, crawlVars, fetchVars, extractVars, aiVars>>

\* start(run_initial_crawl) (scheduler.py:81-109): the periodic job is
\* registered and the scheduler started; the initial crawl, when asked for,
\* runs in the calling thread with force_all.
Start(run_initial_crawl) ==
    /\ sched = "new"
    /\ runner["app"].pc = "idle"
    /\ sched' = "started"
    /\ IF run_initial_crawl
       THEN CrawlJob("app", "startup", <<>>, TRUE)
       ELSE UNCHANGED runner
    /\ UNCHANGED <<clock, seedJobs, periodic>>
    /\ SchedFrame

\* The scheduler fires jobs only while it is running.
SchedulerRunningMut == sched # "new"

SchedulerRunning == sched = "started"

InFlight == {r \in TickThreads : runner[r].pc # "idle"}

\* The instance limit of the periodic job: a run that comes due while the
\* limit is reached is skipped.
MaxInstancesReachedMut == FALSE

MaxInstancesReached == Cardinality(InFlight) >= max_instances

\* The interval trigger fires and an executor thread runs
\* _crawl_job(False) (scheduler.py:90-97, 28-79).
TickFire(r) ==
    /\ SchedulerRunning
    /\ ~MaxInstancesReached
    /\ runner[r].pc = "idle"
    /\ CrawlJob(r, "tick", <<>>, FALSE)
    /\ UNCHANGED <<sched, clock, seedJobs, periodic>>
    /\ SchedFrame

\* stop() (scheduler.py:111-113): shutdown() ends the firing of jobs at
\* once and waits for the job that is running.
StopCall ==
    /\ sched = "started"
    /\ sched' = "stopping"
    /\ UNCHANGED <<clock, seedJobs, runner, periodic>>
    /\ SchedFrame

StopReturn ==
    /\ sched = "stopping"
    /\ InFlight = {}
    /\ sched' = "stopped"
    /\ UNCHANGED <<clock, seedJobs, runner, periodic>>
    /\ SchedFrame

\* force_all of trigger_manual_crawl when the caller leaves it out
\* (scheduler.py:115).
DefaultForceAllMut == FALSE

DefaultForceAll == TRUE

\* trigger_manual_crawl(urls, force_all) (scheduler.py:115-130); an omitted
\* or empty urls is <<>>.
TriggerManualCrawl(r, urls, force_all) ==
    IF urls # <<>>
    THEN runner' = [runner EXCEPT ![r] =
             [pc |-> "crawl", mode |-> "manual", given |-> urls, todo |-> urls,
              crawler |-> "open", ended |-> "none"]]
    ELSE CrawlJob(r, "manual", urls, force_all)

\* POST /api/crawl/trigger (routes.py:125-143): the scheduler of the
\* application, or a temporary one over the same seeds and store, is asked
\* for a manual crawl of urls.
TriggerCrawl(urls) ==
    /\ runner["app"].pc = "idle"
    /\ TriggerManualCrawl("app", urls, DefaultForceAll)
    /\ UNCHANGED <<sched, clock, seedJobs, periodic>>
    /\ SchedFrame

\* The job of url written with the time of the write (crawler.py:75-89);
\* the scheduler reads the jobs of its seeds only.
WriteJob(url) ==
    IF url \in Seeds
    THEN [seedJobs EXCEPT ![url] = [kind |-> "time", at |-> clock]]
    ELSE seedJobs

\* crawl_seed_urls crawls its next URL (crawler.py:175-177).
CrawlOne(r) ==
    /\ runner[r].pc = "crawl"
    /\ runner[r].todo # <<>>
    /\ seedJobs' = WriteJob(Head(runner[r].todo))
    /\ runner' = [runner EXCEPT ![r].todo = Tail(@)]
    /\ UNCHANGED <<sched, clock, periodic>>
    /\ SchedFrame

\* crawl_seed_urls raises at a URL, its job written or not: _crawl_job
\* catches and reports it (scheduler.py:76-79), the direct call of
\* trigger_manual_crawl lets it through to the route (scheduler.py:125-127,
\* routes.py:142-143); neither reaches crawler.cleanup().
CrawlRaises(r, written) ==
    /\ runner[r].pc = "crawl"
    /\ runner[r].todo # <<>>
    /\ seedJobs' = IF written THEN WriteJob(Head(runner[r].todo)) ELSE seedJobs
    /\ runner' = [runner EXCEPT ![r] =
                     [IdleRunner EXCEPT !.crawler = "open",
                                        !.ended = Ended(runner[r].mode, runner[r].given)]]
    /\ UNCHANGED <<sched, clock, periodic>>
    /\ SchedFrame

\* A call fails before its crawl run begins.  In _crawl_job this is
\* find_one raising in the loop over the seeds, which a call with force_all
\* does not reach (scheduler.py:44-50), or WebCrawler() raising when there
\* is something to crawl (66-69); in trigger_manual_crawl with urls it is
\* WebCrawler() raising (125).
SetupFailures(urls, force_all) ==
    IF urls # <<>> THEN {"crawler"}
    ELSE (IF force_all THEN {} ELSE {"lookup"})
             \cup (IF UrlsToCrawl(force_all) # <<>> THEN {"crawler"} ELSE {})

\* The periodic job fires and _crawl_job(False) fails before the run begins.
TickFails(r, failure) ==
    /\ SchedulerRunning
    /\ ~MaxInstancesReached
    /\ runner[r].pc = "idle"
    /\ failure \in SetupFailures(<<>>, FALSE)
    /\ runner' = [runner EXCEPT ![r] = [IdleRunner EXCEPT !.ended = Ended("tick", <<>>)]]
    /\ UNCHANGED <<sched, clock, seedJobs, periodic>>
    /\ SchedFrame

\* POST /api/crawl/trigger whose trigger_manual_crawl(urls) fails before
\* the run begins (routes.py:128-143; scheduler.py:123-130).
TriggerFails(urls, failure) ==
    /\ runner["app"].pc = "idle"
    /\ failure \in SetupFailures(urls, DefaultForceAll)
    /\ runner' = [runner EXCEPT !["app"] =
                     [IdleRunner EXCEPT !.ended = Ended("manual", urls)]]
    /\ UNCHANGED <<sched, clock, seedJobs, periodic>>
    /\ SchedFrame

\* What the route answers once trigger_manual_crawl is over: the success
\* message, or the HTTP 500 of its handler (routes.py:138-143).
TriggerReply == IF runner["app"].ended = "raised" THEN "error" ELSE "success"

\* crawl_seed_urls has returned: crawler.cleanup() (scheduler.py:71, 127).
Finish(r) ==
    /\ runner[r].pc = "crawl"
    /\ runner[r].todo = <<>>
    /\ runner' = [runner EXCEPT ![r] = [IdleRunner EXCEPT !.crawler = "closed"]]
    /\ UNCHANGED <<sched, clock, seedJobs, periodic>>
    /\ SchedFrame

\* An hour passes.
Hour ==
    /\ clock < MaxTime
    /\ clock' = clock + 1
    /\ UNCHANGED <<sched, seedJobs, runner, periodic>>
    /\ SchedFrame

\* The interval job of a scheduler whose run times are not followed.
NoPeriodic == [next_run_time |-> "none"]

\* CrawlScheduler.__init__ (scheduler.py:16-26) over a store that holds
\* the given job documents.
SchedulerInit(docs) ==
    /\ sched = "new"
    /\ clock = 0
    /\ seedJobs = docs
    /\ runner = [r \in Runners |-> IdleRunner]
    /\ periodic = NoPeriodic

\* The scheduler part when no scheduler is running.
SchedulerIdle == SchedulerInit([u \in Seeds |-> [kind |-> "absent", at |-> 0]])

\* The steps of the crawl runs in flight.
RunSteps ==
    \/ \E r \in Runners : CrawlOne(r)
    \/ \E r \in Runners, written \in BOOLEAN : CrawlRaises(r, written)
    \/ \E r \in Runners : Finish(r)

\* The scheduler from start to stop with no trigger request.
TickNext ==
    \/ \E run_initial_crawl \in BOOLEAN : Start(run_initial_crawl)
    \/ \E r \in TickThreads : TickFire(r)
    \/ StopCall
    \/ StopReturn
    \/ Hour
    \/ RunSteps

SchedulerNext ==
    \/ TickNext
    \/ \E urls \in UrlLists : TriggerCrawl(urls)

\* The scheduler at one hour, with the calls that fail before their run.
FailingNext ==
    \/ \E run_initial_crawl \in BOOLEAN : Start(run_initial_crawl)
    \/ \E r \in TickThreads : TickFire(r)
    \/ \E r \in TickThreads, failure \in {"lookup", "crawler"} : TickFails(r, failure)
    \/ \E urls \in UrlLists : TriggerCrawl(urls)
    \/ \E urls \in UrlLists, failure \in {"lookup", "crawler"} : TriggerFails(urls, failure)
    \/ RunSteps

(***************************************************************************)
(* The periodic job at its run times, scheduler.py:89-99 and 28-79         *)
(***************************************************************************)
\* The clock value up to which the periodic job is followed: its first
\* three run times and the crawl of the third run.
PeriodicEnd == 3 * crawl_interval_hours + 1

\* The interval job once start() has added it at `now` (scheduler.py:90-99):
\* IntervalTrigger(hours=self.crawl_interval_hours) puts its first run one
\* interval later.  started is the run time of its latest run, crawled the
\* run times of the runs that wrote the job of a seed, and missed the run
\* times at which no run was made.
StartedPeriodic(now) ==
    [next_run_time |-> now + crawl_interval_hours,
     started |-> now,
     crawled |-> [u \in Seeds |-> {}],
     missed |-> {}]

\* start(False) as the application makes it (app.py:42; scheduler.py:89-99).
PeriodicStart ==
    /\ sched = "new"
    /\ sched' = "started"
    /\ periodic' = StartedPeriodic(clock)
    /\ UNCHANGED <<clock, seedJobs, runner>>
    /\ SchedFrame

\* Time passes up to the next run time of the job.
Elapse ==
    /\ SchedulerRunning
    /\ clock < periodic.next_run_time
    /\ clock < PeriodicEnd
    /\ clock' = clock + 1
    /\ UNCHANGED <<sched, seedJobs, runner, periodic>>
    /\ SchedFrame

\* The job's run time has come and an executor thread runs _crawl_job(False)
\* (scheduler.py:90-97, 28-79); the trigger moves on by one interval.
TickOnTime(r) ==
    /\ SchedulerRunning
    /\ clock = periodic.next_run_time
    /\ ~MaxInstancesReached
    /\ runner[r].pc = "idle"
    /\ CrawlJob(r, "tick", <<>>, FALSE)
    /\ periodic' = [periodic EXCEPT !.next_run_time = @ + crawl_interval_hours,
                                    !.started = clock]
    /\ UNCHANGED <<sched, clock, seedJobs>>
    /\ SchedFrame

\* The job's run time has come while its earlier run is still going: the
\* run is skipped (max_instances, scheduler.py:90-97) and the trigger moves
\* on by one interval.
TickMissed ==
    /\ SchedulerRunning
    /\ clock = periodic.next_run_time
    /\ MaxInstancesReached
    /\ periodic' = [periodic EXCEPT !.next_run_time = @ + crawl_interval_hours,
                                    !.missed = @ \cup {clock}]
    /\ UNCHANGED <<sched, clock, seedJobs, runner>>
    /\ SchedFrame

\* How crawl_url(seed) can go for the scheduler (crawler.py:103-164):
\* "skipped", robots.txt disallows the seed and nothing is written
\* (110-112); "raised", an exception before the first write leaves the
\* call; "completed" and "failed", the last write of the call (157, 162);
\* "running", the job was written as running (123) and an exception left
\* the call before another write.
CrawlOutcomes == {"skipped", "raised", "completed", "failed", "running"}

\* A stamp taken when the crawl begins.
AfterSleepMut(now) == now

\* datetime.utcnow() of a job write (crawler.py:83) in a call that began at
\* `now`: the write comes after time.sleep(max(delay, self.crawl_delay))
\* (crawler.py:116), so later than `now`.
AfterSleep(now) == now + 1

\* _update_crawl_job(url, status, ...) at `now` (crawler.py:75-89), as the
\* scheduler will read the document.
WriteJobAs(url, status, now) ==
    [seedJobs EXCEPT ![url] = [kind |-> "time", at |-> now, status |-> status]]

\* crawl_seed_urls crawls its next seed (crawler.py:175-177) in the run of
\* thread r; an exception out of crawl_url ends the run in the handler of
\* _crawl_job (scheduler.py:76-79).
PeriodicCrawl(r, outcome) ==
    /\ runner[r].pc = "crawl"
    /\ runner[r].todo # <<>>
    /\ IF outcome \in {"completed", "failed", "running"}
       THEN /\ clock < periodic.next_run_time
            /\ AfterSleep(clock) <= PeriodicEnd
            /\ clock' = AfterSleep(clock)
            /\ seedJobs' = WriteJobAs(Head(runner[r].todo), outcome, clock')
            /\ periodic' = [periodic EXCEPT !.crawled[Head(runner[r].todo)] =
                                                @ \cup {periodic.started}]
       ELSE UNCHANGED <<clock, seedJobs, periodic>>
    /\ runner' = [runner EXCEPT ![r] =
                     IF outcome \in {"raised", "running"}
                     THEN [IdleRunner EXCEPT !.crawler = "open",
                                             !.ended = Ended(runner[r].mode, runner[r].given)]
                     ELSE [@ EXCEPT !.todo = Tail(@)]]
    /\ UNCHANGED sched
    /\ SchedFrame

\* The scheduler of the application with its periodic job and no trigger
\* request.
PeriodicNext ==
    \/ PeriodicStart
    \/ Elapse
    \/ \E r \in TickThreads : TickOnTime(r)
    \/ TickMissed
    \/ \E r \in TickThreads, outcome \in CrawlOutcomes : PeriodicCrawl(r, outcome)
    \/ \E r \in TickThreads : Finish(r)

(***************************************************************************)
(* Strings and regular expressions of the record extractor                 *)
(***************************************************************************)
\* A string is the sequence of its characters.
UpperLetters ==
    <<"A", "B", "C", "D", "E", "F", "G", "H", "I", "J", "K", "L", "M",
      "N", "O", "P", "Q", "R", "S", "T", "U", "V", "W", "X", "Y", "Z">>

LowerLetters ==
    <<"a", "b", "c", "d", "e", "f", "g", "h", "i", "j", "k", "l", "m",
      "n", "o", "p", "q", "r", "s", "t", "u", "v", "w", "x", "y", "z">>

Range(seq) == {seq[i] : i \in DOMAIN seq}

\* The sequences of a sequence, one after the other.
RECURSIVE Concat(_)
Concat(seqs) == IF Len(seqs) = 0 THEN <<>> ELSE Head(seqs) \o Concat(Tail(seqs))

\* [0-9]
Digits == {"0", "1", "2", "3", "4", "5", "6", "7", "8", "9"}

\* [A-Z], [a-z], [a-zA-Z]
Upper == Range(UpperLetters)

Lower == Range(LowerLetters)

Letters == Upper \cup Lower

\* \s, and what str.strip() removes.
Whitespace == {" ", "\t", "\n"}

\* \w, for the word boundary \b.
WordChars == Letters \cup Digits \cup {"_"}

\* str.lower(), one character.
LowerChar(c) ==
    IF c \in Upper
    THEN LowerLetters[CHOOSE i \in DOMAIN UpperLetters : UpperLetters[i] = c]
    ELSE c

\* str.lower()
lower(s) == [i \in DOMAIN s |-> LowerChar(s[i])]

\* str.replace(old, new) for one-character old and new.
replace(s, old, new) == [i \in DOMAIN s |-> IF s[i] = old THEN new ELSE s[i]]

\* str.strip()
RECURSIVE lstrip(_)
lstrip(s) == IF s # <<>> /\ Head(s) \in Whitespace THEN lstrip(Tail(s)) ELSE s

RECURSIVE rstrip(_)
rstrip(s) ==
    IF s # <<>> /\ s[Len(s)] \in Whitespace THEN rstrip(SubSeq(s, 1, Len(s) - 1)) ELSE s

strip(s) == rstrip(lstrip(s))

\* The patterns, as syntax trees: a character class, a concatenation, an
\* alternation, a greedy repetition {lo,hi} (hi < 0 for no upper limit) of a
\* pattern that takes at least one character, and the word boundary \b.
Class(chars) == [t |-> "class", chars |-> chars]

Cat(parts) == [t |-> "cat", parts |-> parts]

Alt(parts) == [t |-> "alt", parts |-> parts]

Rep(of, lo, hi) == [t |-> "rep", of |-> of, lo |-> lo, hi |-> hi]

Opt(of) == Rep(of, 0, 1)

Plus(of) == Rep(of, 1, -1)

Star(of) == Rep(of, 0, -1)

WordBoundary == [t |-> "wordb"]

\* A literal word; with re.IGNORECASE each letter matches in both cases.
Lit(word, ignorecase) ==
    Cat([i \in DOMAIN word |->
            Class(IF ignorecase /\ word[i] \in Letters
                  THEN {c \in Letters : LowerChar(c) = LowerChar(word[i])}
                  ELSE {word[i]})])

IsWordAt(s, i) == i \in DOMAIN s /\ s[i] \in WordChars

\* No end: the pattern does not match here.
Fails == 0

\* The backtracking matcher: the position after the match of the patterns
\* of `parts', one after the other, that starts at position i of s, or Fails.
\* Alternatives are tried first to last and a repetition takes as many as it
\* can before it gives one back, so the result is the match Python reports.
OrElse(end, otherwise) == IF end # Fails THEN end ELSE otherwise

RECURSIVE MatchAt(_, _, _)
RECURSIVE MatchAlt(_, _, _, _)
MatchAt(parts, s, i) ==
    IF Len(parts) = 0 THEN i
    ELSE LET re == Head(parts)
             rest == Tail(parts)
         IN CASE re.t = "class" ->
                   IF i \in DOMAIN s /\ s[i] \in re.chars
                   THEN MatchAt(rest, s, i + 1) ELSE Fails
              [] re.t = "wordb" ->
                   IF IsWordAt(s, i - 1) # IsWordAt(s, i)
                   THEN MatchAt(rest, s, i) ELSE Fails
              [] re.t = "cat" -> MatchAt(re.parts \o rest, s, i)
              [] re.t = "alt" -> MatchAlt(re.parts, rest, s, i)
              [] re.t = "rep" ->
                   OrElse(IF re.hi = 0 THEN Fails
                          ELSE MatchAt(<<re.of, Rep(re.of, re.lo - 1, re.hi - 1)>> \o rest,
                                       s, i),
                          IF re.lo <= 0 THEN MatchAt(rest, s, i) ELSE Fails)

MatchAlt(alternatives, rest, s, i) ==
    IF Len(alternatives) = 0 THEN Fails
    ELSE OrElse(MatchAt(<<Head(alternatives)>> \o rest, s, i),
                MatchAlt(Tail(alternatives), rest, s, i))

\* No match: what re.search returns as None and re.findall as [].
NoMatch == [start |-> 0, end |-> 0]

\* re.search(pattern, string): the match at the leftmost position that has
\* one; re.findall(pattern, string)[0] is the same match.
MatchOrElse(start, end, otherwise) ==
    IF end # Fails THEN [start |-> start, end |-> end] ELSE otherwise

RECURSIVE SearchFrom(_, _, _)
SearchFrom(pattern, string, i) ==
    IF i > Len(string) + 1 THEN NoMatch
    ELSE MatchOrElse(i, MatchAt(<<pattern>>, string, i), SearchFrom(pattern, string, i + 1))

re_search(pattern, string) == SearchFrom(pattern, string, 1)

\* match.group(1), for a pattern whose one group encloses all of it.
groupMut(string, m) == SubSeq(string, m.start + 1, m.end - 1)

group(string, m) == SubSeq(string, m.start, m.end - 1)

\* The first of two strings that is not empty: `x or y', `if not x: x = y'.
IfEmpty(first, second) == IF first # <<>> THEN first ELSE second

\* m.group(1).strip() for a match, and the empty string for None.
GroupStripped(string, m) == IF m = NoMatch THEN <<>> ELSE strip(group(string, m))

\* phone_match.group(1).strip() (scraper.py:236-238, 250-252), and
\* re.findall(pattern, text)[0].strip() (277-279, 283-285, 291-293, 298-300):
\* what the pattern extracts from a string, and the empty string when it
\* matches nowhere.
Extracted(pattern, string) == GroupStripped(string, re_search(pattern, string))

\* [\s-]?
Separator == Opt(Class(Whitespace \cup {"-"}))

Digit == Class(Digits)

\* \+?92[\s-]?[0-9]{2}[\s-]?[0-9]{7,9}
PakistaniIntl ==
    Cat(<<Opt(Class({"+"})), Class({"9"}), Class({"2"}), Separator,
          Rep(Digit, 2, 2), Separator, Rep(Digit, 7, 9)>>)

\* 0[0-9]{2}[\s-]?[0-9]{7,9}
PakistaniLocal == Cat(<<Class({"0"}), Rep(Digit, 2, 2), Separator, Rep(Digit, 7, 9)>>)

\* \+?[0-9]{10,13}
GenericNumber == Cat(<<Opt(Class({"+"})), Rep(Digit, 10, 13)>>)

\* phone_pattern of _normalize_record and of the element pass
\* (scraper.py:199, 235, 247).
phone_pattern == Alt(<<PakistaniIntl, PakistaniLocal, GenericNumber>>)

\* phone_pattern of _extract_info_from_text (scraper.py:276).
text_phone_pattern == Alt(<<PakistaniIntl, PakistaniLocal>>)

(***************************************************************************)
(* Phone extraction on its own                                             *)
(***************************************************************************)
\* The pieces the texts given to the phone patterns are made of: the
\* optional plus sign, the country code, the leading zero, a two-digit area
\* code, a seven-digit subscriber number and the two separators.
Segments ==
    << <<"+">>, <<"9", "2">>, <<"0">>, <<"3", "0">>,
       <<"1", "2", "3", "4", "5", "6", "7">>, <<"-">>, <<" ">> >>

\* The texts of at most MaxSegments pieces.
Texts ==
    {Concat([i \in DOMAIN choice |-> Segments[choice[i]]]) :
        choice \in UNION {[1..n -> DOMAIN Segments] : n \in 0..MaxSegments}}

\* The two phone patterns, by the function that applies them.
PhonePatterns == {"_normalize_record", "_extract_info_from_text"}

PatternOf(function) ==
    IF function = "_normalize_record" THEN phone_pattern ELSE text_phone_pattern

NoPhone == [function |-> "none", value |-> <<>>, again |-> <<>>, runs |-> 0]

\* A phone is extracted from the text.
ExtractPhone(function) ==
    /\ phoneRun.runs = 0
    /\ Extracted(PatternOf(function), raw) # <<>>
    /\ phoneRun' = [function |-> function,
                 value |-> Extracted(PatternOf(function), raw),
                 again |-> <<>>, runs |-> 1]
    /\ UNCHANGED <<raw, soup, extracted>>
    /\ UNCHANGED <<storeVars, robotsVars, crawlVars, fetchVars, schedVars, aiVars>>

\* The same pattern is applied to the extracted phone.
ExtractAgain ==
    /\ phoneRun.runs = 1
    /\ phoneRun' = [phoneRun EXCEPT !.again = Extracted(PatternOf(phoneRun.function), phoneRun.value),
                              !.runs = 2]
    /\ UNCHANGED <<raw, soup, extracted>>
    /\ UNCHANGED <<storeVars, robotsVars, crawlVars, fetchVars, schedVars, aiVars>>

PhoneInit == raw \in Texts /\ phoneRun = NoPhone

PhoneIdle == raw = <<>> /\ phoneRun = NoPhone

PhoneNext ==
    \/ \E function \in PhonePatterns : ExtractPhone(function)
    \/ ExtractAgain

(***************************************************************************)
(* The record extractor (WebScraper._extract_structured_data)              *)
(***************************************************************************)
\* A dict is the sequence of its items in insertion order; d[key] = value
\* keeps the place of a key that is already there.
HasKey(d, key) == \E i \in DOMAIN d : d[i].key = key

Get(d, key) == d[CHOOSE i \in DOMAIN d : d[i].key = key].value

Put(d, key, value) ==
    IF HasKey(d, key)
    THEN [i \in DOMAIN d |-> IF d[i].key = key THEN [d[i] EXCEPT !.value = value] ELSE d[i]]
    ELSE Append(d, [key |-> key, value |-> value])

\* element.get_text(strip=True), for an element that holds text only.
get_text(element) == strip(element)

\* key = headers[i].lower().replace(" ", "_") (scraper.py:148)
HeaderKeyMut(header) == lower(header)

HeaderKey(header) == replace(lower(header), " ", "_")

\* The loop over the cells of one row (scraper.py:145-149): cell i goes
\* under the key of header i when there is such a header and it is not empty.
RECURSIVE RowRecord(_, _, _, _)
RowRecord(headers, cells, i, record) ==
    IF i > Len(cells) THEN record
    ELSE RowRecord(headers, cells, i + 1,
                   IF i <= Len(headers) /\ headers[i] # <<>>
                   THEN Put(record, HeaderKey(headers[i]), cells[i])
                   ELSE record)

\* The rows after the first of one table (scraper.py:142-151): a row
\* without cells, or without a cell under a header, gives no record.
RECURSIVE RowRecords(_, _, _)
RowRecords(headers, rows, j) ==
    IF j > Len(rows) THEN <<>>
    ELSE LET cells == [i \in DOMAIN rows[j] |-> get_text(rows[j][i])]
             record == RowRecord(headers, cells, 1, <<>>)
         IN (IF Len(cells) > 0 /\ Len(record) > 0
             THEN <<[row |-> j, record |-> record]>> ELSE <<>>)
            \o RowRecords(headers, rows, j + 1)

\* _extract_tables for one table (scraper.py:133-151): the first row gives
\* the headers.
TableRecords(rows) ==
    IF Len(rows) = 0 THEN <<>>
    ELSE RowRecords([i \in DOMAIN rows[1] |-> get_text(rows[1][i])], rows, 2)

\* field_mapping (scraper.py:218-224), in the order of the dict.
StandardFields == <<"name", "phone", "address", "institution", "organization">>

field_mapping ==
    [name |-> <<<<"n", "a", "m", "e">>, <<"s", "t", "u", "d", "e", "n", "t", "_", "n", "a", "m", "e">>, <<"p", "e", "r", "s", "o", "n">>, <<"s", "t", "u", "d", "e", "n", "t">>, <<"c", "a", "n", "d", "i", "d", "a", "t", "e">>>>,
     phone |-> <<<<"p", "h", "o", "n", "e">>, <<"t", "e", "l", "e", "p", "h", "o", "n", "e">>, <<"c", "o", "n", "t", "a", "c", "t">>, <<"p", "h", "o", "n", "e", "_", "n", "u", "m", "b", "e", "r">>, <<"m", "o", "b", "i", "l", "e">>,
                 <<"c", "o", "n", "t", "a", "c", "t", "_", "n", "u", "m", "b", "e", "r">>, <<"p", "h", "o", "n", "e", "_", "n", "o">>, <<"t", "e", "l">>, <<"t", "e", "l", "e", "p", "h", "o", "n", "e", "_", "n", "u", "m", "b", "e", "r">>,
                 <<"c", "e", "l", "l">>, <<"c", "e", "l", "l", "p", "h", "o", "n", "e">>, <<"n", "u", "m", "b", "e", "r">>>>,
     address |-> <<<<"a", "d", "d", "r", "e", "s", "s">>, <<"l", "o", "c", "a", "t", "i", "o", "n">>, <<"a", "r", "e", "a">>, <<"c", "i", "t", "y">>>>,
     institution |-> <<<<"i", "n", "s", "t", "i", "t", "u", "t", "i", "o", "n">>, <<"s", "c", "h", "o", "o", "l">>, <<"c", "o", "l", "l", "e", "g", "e">>, <<"u", "n", "i", "v", "e", "r", "s", "i", "t", "y">>, <<"e", "d", "u", "c", "a", "t", "i", "o", "n">>>>,
     organization |-> <<<<"o", "r", "g", "a", "n", "i", "z", "a", "t", "i", "o", "n">>, <<"c", "o", "m", "p", "a", "n", "y">>, <<"b", "u", "s", "i", "n", "e", "s", "s">>, <<"o", "r", "g">>>>]

\* The value a standard field gets from the record (scraper.py:229-243): the
\* one under the first of its names that is in the record with a value that
\* is not empty once stripped; for the phone, the match of the phone pattern
\* in that value when there is one.
FieldValue(field, value) ==
    IF field = "phone"
    THEN IfEmpty(Extracted(phone_pattern, value), strip(value))
    ELSE strip(value)

RECURSIVE MappedValue(_, _, _)
MappedValue(field, possible_names, record_lower) ==
    IF Len(possible_names) = 0 THEN <<>>
    ELSE IF /\ HasKey(record_lower, Head(possible_names))
            /\ strip(Get(record_lower, Head(possible_names))) # <<>>
         THEN FieldValue(field, Get(record_lower, Head(possible_names)))
         ELSE MappedValue(field, Tail(possible_names), record_lower)

\* The phone looked for in all the values of the record, in the order of its
\* items (scraper.py:246-253).
RECURSIVE PhoneInValues(_)
PhoneInValues(items) ==
    IF Len(items) = 0 THEN <<>>
    ELSE IfEmpty(Extracted(phone_pattern, Head(items).value), PhoneInValues(Tail(items)))

\* A key that some standard field has among its names (scraper.py:258).
IsMapped(key) ==
    \E f \in DOMAIN field_mapping :
        \E i \in DOMAIN field_mapping[f] : field_mapping[f][i] = key

\* any(normalized.get(field) for field in [...]) (scraper.py:262, 303).  A
\* field the dict does not have is the empty string here.
HasStandardFieldMut(normalized) == TRUE

HasStandardField(normalized) ==
    \E i \in DOMAIN StandardFields : normalized[StandardFields[i]] # <<>>

\* return normalized, or None: None is the empty sequence, a record the
\* sequence that holds it (scraper.py:262-265).
ReturnNormalized(normalized) == IF HasStandardField(normalized) THEN <<normalized>> ELSE <<>>

\* record_lower = {k.lower(): v for k, v in record.items()} (scraper.py:226)
Lowered(record) == [i \in DOMAIN record |-> [record[i] EXCEPT !.key = lower(record[i].key)]]

\* The fields filled from the names of field_mapping (scraper.py:228-243).
Mapped(record_lower) ==
    [f \in DOMAIN field_mapping |-> MappedValue(f, field_mapping[f], record_lower)]

\* The phone found in some value when no name of the phone field gave one
\* (246-253), and the metadata (256-259).
WithPhoneAndMetadata(mapped, record, source_url) ==
    [source_url |-> source_url,
     name |-> mapped.name,
     phone |-> IfEmpty(mapped.phone, PhoneInValues(record)),
     address |-> mapped.address,
     institution |-> mapped.institution,
     organization |-> mapped.organization,
     metadata |-> SelectSeq(record, LAMBDA item : ~IsMapped(lower(item.key)))]

\* _normalize_record (scraper.py:209-265)
normalize_record(record, source_url) ==
    ReturnNormalized(WithPhoneAndMetadata(Mapped(Lowered(record)), record, source_url))

\* [A-Z][a-z]+
CapitalizedWord == Cat(<<Class(Upper), Plus(Class(Lower))>>)

\* \b([A-Z][a-z]+(?:\s+[A-Z][a-z]+){1,3})\b (scraper.py:200, 282)
name_pattern ==
    Cat(<<WordBoundary, CapitalizedWord,
          Rep(Cat(<<Plus(Class(Whitespace)), CapitalizedWord>>), 1, 3),
          WordBoundary>>)

\* [a-zA-Z\s]
LetterOrSpace == Class(Letters \cup Whitespace)

\* institution_keywords (scraper.py:288)
institution_keywords == <<<<"s", "c", "h", "o", "o", "l">>, <<"c", "o", "l", "l", "e", "g", "e">>, <<"u", "n", "i", "v", "e", "r", "s", "i", "t", "y">>, <<"a", "c", "a", "d", "e", "m", "y">>, <<"i", "n", "s", "t", "i", "t", "u", "t", "e">>>>

\* \b([A-Z][a-zA-Z\s]+{keyword}[a-zA-Z\s]*)\b with re.IGNORECASE
\* (scraper.py:290-291): [A-Z] takes a letter of either case.
InstitutionPattern(keyword) ==
    Cat(<<WordBoundary, Class(Letters), Plus(LetterOrSpace), Lit(keyword, TRUE),
          Star(LetterOrSpace), WordBoundary>>)

\* ([A-Z][a-zA-Z\s]+(?:Street|Road|Avenue|Lane|Area|Block|Sector|City)[a-zA-Z\s]*)
\* (scraper.py:297)
address_pattern ==
    Cat(<<Class(Upper), Plus(LetterOrSpace),
          Alt(<<Lit(<<"S", "t", "r", "e", "e", "t">>, FALSE), Lit(<<"R", "o", "a", "d">>, FALSE), Lit(<<"A", "v", "e", "n", "u", "e">>, FALSE),
                Lit(<<"L", "a", "n", "e">>, FALSE), Lit(<<"A", "r", "e", "a">>, FALSE), Lit(<<"B", "l", "o", "c", "k">>, FALSE),
                Lit(<<"S", "e", "c", "t", "o", "r">>, FALSE), Lit(<<"C", "i", "t", "y">>, FALSE)>>),
          Star(LetterOrSpace)>>)

\* The patterns of the keywords, in the order of the list.
institution_patterns ==
    [k \in DOMAIN institution_keywords |-> InstitutionPattern(institution_keywords[k])]

\* The first keyword, in the order of the list, whose pattern is found
\* (scraper.py:289-294).
RECURSIVE FirstInstitution(_, _)
FirstInstitution(patterns, text) ==
    IF Len(patterns) = 0 THEN <<>>
    ELSE IfEmpty(Extracted(Head(patterns), text), FirstInstitution(Tail(patterns), text))

\* any(...) over name, phone, address and institution, and the return
\* (scraper.py:303-306).
ReturnInfo(normalized) ==
    IF \E f \in {"name", "phone", "address", "institution"} : normalized[f] # <<>>
    THEN <<normalized>> ELSE <<>>

\* _extract_info_from_text (scraper.py:267-306); every match of
\* name_pattern has two words or more, as line 284 asks.
extract_info_from_text(text, source_url) ==
    ReturnInfo([source_url |-> source_url,
                name |-> Extracted(name_pattern, text),
                phone |-> Extracted(text_phone_pattern, text),
                address |-> Extracted(address_pattern, text),
                institution |-> FirstInstitution(institution_patterns, text),
                organization |-> <<>>,
                metadata |-> <<>>])

\* The pages given to the extractor: the tables of a page are its tables, each the
\* sequence of its rows and a row the sequence of the texts of its cells (th
\* in the first row, td in the others); its items are the li elements of
\* the lists and its divs the div elements whose class matches
\* content|data|list|result, in this order in the document.
TableCells(rows) == Concat(SubSeq(rows, 2, Len(rows)))

\* soup.find_all(["div", "span", "p", "td", "li"]) (scraper.py:194), in
\* document order.
Elements(tree) ==
    Concat([t \in DOMAIN tree.tables |-> TableCells(tree.tables[t])])
        \o tree.items \o tree.divs

\* A record a pass appends, with the pass and the row or element it comes
\* from; nothing for None.
Entries(heuristic, table, index, normalized) ==
    [k \in DOMAIN normalized |->
        [heuristic |-> heuristic, table |-> table, index |-> index, record |-> normalized[k]]]

\* The table pass (scraper.py:170-174).
TableEntries(table_records, t, url) ==
    Concat([k \in DOMAIN table_records |->
               Entries("table", t, table_records[k].row,
                       normalize_record(table_records[k].record, url))])

\* The list pass (scraper.py:177-181), over the items with a text
\* (scraper.py:160-162).
ListEntry(i, text, url) ==
    IF text # <<>> THEN Entries("list", 0, i, extract_info_from_text(text, url)) ELSE <<>>

\* The pass over the content elements with more than 20 characters
\* (scraper.py:185-190).
ContentEntry(i, text, url) ==
    IF text # <<>> /\ Len(text) > 20
    THEN Entries("content", 0, i, extract_info_from_text(text, url)) ELSE <<>>

\* if normalized and normalized.get("name") and normalized.get("phone")
\* (scraper.py:204)
WithNameAndPhone(normalized) ==
    SelectSeq(normalized, LAMBDA record : record.name # <<>> /\ record.phone # <<>>)

\* The pass over every small element that holds a phone and a name
\* (scraper.py:194-205).
ElementEntry(i, text, url) ==
    IF /\ text # <<>>
       /\ Len(text) < 500
       /\ re_search(phone_pattern, text) # NoMatch
       /\ re_search(name_pattern, text) # NoMatch
    THEN Entries("element", 0, i, WithNameAndPhone(extract_info_from_text(text, url)))
    ELSE <<>>

\* _extract_structured_data (scraper.py:165-207): the records of the four
\* passes, each with the pass and the row or element it comes from.
extract_structured_data(tree, url) ==
    Concat([t \in DOMAIN tree.tables |->
               TableEntries(TableRecords(tree.tables[t]), t, url)])
        \o Concat([i \in DOMAIN tree.items |-> ListEntry(i, get_text(tree.items[i]), url)])
        \o Concat([i \in DOMAIN tree.divs |-> ContentEntry(i, get_text(tree.divs[i]), url)])
        \o Concat([i \in DOMAIN Elements(tree) |->
                      ElementEntry(i, get_text(Elements(tree)[i]), url)])

\* The texts the modelled pages are made of.
HeaderTexts == {<<"N", "a", "m", "e">>, <<"S", "t", "u", "d", "e", "n", "t", " ", "N", "a", "m", "e">>, <<"P", "h", "o", "n", "e">>, <<"R", "o", "l", "l", " ", "N", "o">>, <<>>}

CellTexts == {<<>>, <<"A", "s", "m", "a", " ", "K", "h", "a", "n">>, <<"0", "3", "0", "-", "1", "2", "3", "4", "5", "6", "7">>, <<"A", "s", "m", "a", " ", "K", "h", "a", "n", " ", "0", "3", "0", "-", "1", "2", "3", "4", "5", "6", "7">>}

ItemTexts ==
    {<<"A", "s", "m", "a", " ", "K", "h", "a", "n", " ", "0", "3", "0", "-", "1", "2", "3", "4", "5", "6", "7">>, <<"G", "o", "v", "t", " ", "C", "o", "l", "l", "e", "g", "e", " ", "L", "a", "h", "o", "r", "e">>, <<"M", "a", "l", "l", " ", "R", "o", "a", "d", " ", "L", "a", "h", "o", "r", "e">>, <<"h", "e", "l", "l", "o">>, <<" ">>}

SeqsUpTo(S, n) == UNION {[1..k -> S] : k \in 0..n}

NoSoup == [url |-> "", tables |-> <<>>, items |-> <<>>, divs |-> <<>>]

\* Pages with one table of at most MaxCols columns and at most one row
\* under the header row.
TablePages ==
    {[NoSoup EXCEPT !.url = "https://a.edu/list", !.tables = <<<<headers>> \o rows>>] :
        headers \in SeqsUpTo(HeaderTexts, MaxCols),
        rows \in SeqsUpTo(SeqsUpTo(CellTexts, MaxCols), 1)}

\* Pages with a table of two rows under the headers Name and Phone; the
\* page of the scenario "| Name | Phone | / | Asma Khan | 0300-1234567 |"
\* is one more.
ListingPages ==
    {[NoSoup EXCEPT !.url = url, !.tables = <<<<<<<<"N", "a", "m", "e">>, <<"P", "h", "o", "n", "e">>>>>> \o rows>>] :
        url \in SourceUrls,
        rows \in [1..2 -> [1..2 -> CellTexts]] \cup {<<<<<<"A", "s", "m", "a", " ", "K", "h", "a", "n">>, <<"0", "3", "0", "0", "-", "1", "2", "3", "4", "5", "6", "7">>>>>>}}

\* Pages without a table, with at most one list item and one content
\* element.
TextPages ==
    {[NoSoup EXCEPT !.url = url, !.items = items, !.divs = divs] :
        url \in SourceUrls, items \in SeqsUpTo(ItemTexts, 1), divs \in SeqsUpTo(ItemTexts, 1)}

Pages == TablePages \cup ListingPages \cup TextPages

NotExtracted == [done |-> FALSE, entries |-> <<>>]

\* records = self._extract_structured_data(soup, url) (scraper.py:330)
ExtractStructuredData ==
    /\ ~extracted.done
    /\ soup # NoSoup
    /\ extracted' = [done |-> TRUE, entries |-> extract_structured_data(soup, soup.url)]
    /\ UNCHANGED <<soup, raw, phoneRun>>
    /\ UNCHANGED <<storeVars, robotsVars, crawlVars, fetchVars, schedVars, aiVars>>

\* The records the extractor returned.
ExtractedRecords == [k \in DOMAIN extracted.entries |-> extracted.entries[k].record]

ExtractorInit == soup \in Pages /\ extracted = NotExtracted

ExtractorIdle == soup = NoSoup /\ extracted = NotExtracted

ExtractorNext == ExtractStructuredData

\* No extraction is under way.
ExtractIdle == PhoneIdle /\ ExtractorIdle

(***************************************************************************)
(* Attribute extraction and its cache, ai_service.py:24-110 and            *)
(* cache_service.py:22-62                                                  *)
(***************************************************************************)
\* The people the texts speak of, and how their names are written.
People == {"hafsa", "zoe"}

Spelled(person) ==
    IF person = "hafsa" THEN <<"h", "a", "f", "s", "a">> ELSE <<"z", "o", "e">>

\* The query texts of the requests.
Queries == {<<"h", "e", "r">>, <<"Z", "o", "e", " ">>}

\* conversation_history: a list of {role, content} (schemas.py:8).
Messages == [role : {"user"}, content : {Spelled(p) : p \in People}]

Histories == UNION {[1..n -> Messages] : n \in 0..MaxHistory}

\* sub in text
Contains(text, sub) ==
    \E i \in 1..(Len(text) - Len(sub) + 1) : SubSeq(text, i, i + Len(sub) - 1) = sub

\* conversation_context[-5:] (ai_service.py:79).
RecentLimit == 5

Recent(conversation_context) ==
    SubSeq(conversation_context,
           IF Len(conversation_context) > RecentLimit
           THEN Len(conversation_context) - RecentLimit + 1 ELSE 1,
           Len(conversation_context))

\* The people named in the messages sent to the model: the system prompt
\* with the summary of the recent context, and the query (ai_service.py:75-90).
Mentioned(query, conversation_context) ==
    {p \in People :
        \/ Contains(lower(query), Spelled(p))
        \/ \E i \in DOMAIN Recent(conversation_context) :
               Contains(lower(Recent(conversation_context)[i].content), Spelled(p))}

\* What the model may answer: the name of a person its messages speak of,
\* or no name, and an action, with needs_clarification as the prompt
\* defines it (ai_service.py:52-56).
ModelAnswers(query, conversation_context) ==
    {[attributes |-> attributes,
      needs_clarification |-> action = "clarify",
      action |-> action] :
        attributes \in {{}} \cup {{<<"name", Spelled(p)>>} :
                                     p \in Mentioned(query, conversation_context)},
        action \in {"search", "clarify"}}

\* A named person makes the action "search" (ai_service.py:101-105).
Overridden(result) ==
    IF result.attributes # {}
    THEN [result EXCEPT !.action = "search", !.needs_clarification = FALSE]
    ELSE result

\* The result when the model call raises (ai_service.py:111-120).
Fallback(query) ==
    [attributes |-> IF query # <<>> THEN {<<"name", query>>} ELSE {},
     needs_clarification |-> TRUE,
     action |-> "clarify"]

\* A cache key that tells the conversations apart.
ExtractCacheKeyMut(query, conversation_context) ==
    [query |-> query, action |-> "extract", history |-> conversation_context]

\* cache_key = {"query": query, "action": "extract"} (ai_service.py:32).
ExtractCacheKey(query, conversation_context) ==
    [query |-> query, action |-> "extract"]

\* CacheService._hash_query: the digest of the dumped key, which tells two
\* keys apart exactly when they differ (cache_service.py:22-29).
hash_query(query, context) == [query |-> strip(lower(query)), context |-> context]

NoResponse == [attributes |-> {}, needs_clarification |-> FALSE, action |-> "none"]

\* CacheService.get: the response and the collection it leaves; an expired
\* entry is removed (cache_service.py:31-44).
CacheGet(cache, query, context, now) ==
    LET found == {d \in cache : d.query_hash = hash_query(query, context)}
    IN  IF found = {}
        THEN [response |-> NoResponse, cache |-> cache]
        ELSE LET cache_entry == CHOOSE d \in found : TRUE
             IN  IF now < cache_entry.expires_at
                 THEN [response |-> cache_entry.response, cache |-> cache]
                 ELSE [response |-> NoResponse, cache |-> cache \ {cache_entry}]

\* CacheService.set: update_one with upsert=True on the query_hash, which
\* has a unique index (cache_service.py:46-62; mongodb.py:106).
CacheSet(cache, query, response, context, now) ==
    {d \in cache : d.query_hash # hash_query(query, context)}
        \cup {[query_hash |-> hash_query(query, context),
               response |-> response,
               created_at |-> now,
               expires_at |-> now + ttl_hours]}

NoExtract == [query |-> <<>>, history |-> <<>>, result |-> NoResponse, from |-> "none"]

\* AIService._extract_search_attributes(query, conversation_context): the
\* cached response when there is one; else the model's answer, cached, or
\* the fallback when the call raises (ai_service.py:24-120).
ExtractSearchAttributes(query, conversation_context, answer) ==
    LET cache_key == ExtractCacheKey(query, conversation_context)
        cached == CacheGet(ai_cache, query, cache_key, utcnow)
        result == Overridden(answer)
    IN  /\ answer \in ModelAnswers(query, conversation_context) \cup {NoResponse}
        /\ IF cached.response # NoResponse
           THEN /\ answer = NoResponse
                /\ lastExtract' = [query |-> query, history |-> conversation_context,
                                   result |-> cached.response, from |-> "cache"]
                /\ ai_cache' = cached.cache
           ELSE IF answer # NoResponse
           THEN /\ lastExtract' = [query |-> query, history |-> conversation_context,
                                   result |-> result, from |-> "model"]
                /\ ai_cache' = CacheSet(cached.cache, query, result, cache_key, utcnow)
           ELSE /\ lastExtract' = [query |-> query, history |-> conversation_context,
                                   result |-> Fallback(query), from |-> "fallback"]
                /\ ai_cache' = cached.cache
        /\ UNCHANGED utcnow
        /\ UNCHANGED <<storeVars, robotsVars, crawlVars, fetchVars, schedVars, extractVars>>

\* An hour passes.
AiHour ==
    /\ utcnow < MaxTime
    /\ utcnow' = utcnow + 1
    /\ UNCHANGED <<ai_cache, lastExtract>>
    /\ UNCHANGED <<storeVars, robotsVars, crawlVars, fetchVars, schedVars, extractVars>>

\* The store's TTL monitor removes an entry whose expires_at has passed
\* (mongodb.py:107).
TtlExpire(d) ==
    /\ d \in ai_cache
    /\ d.expires_at <= utcnow
    /\ ai_cache' = ai_cache \ {d}
    /\ UNCHANGED <<utcnow, lastExtract>>
    /\ UNCHANGED <<storeVars, robotsVars, crawlVars, fetchVars, schedVars, extractVars>>

AiInit == ai_cache = {} /\ utcnow = 0 /\ lastExtract = NoExtract

\* No extraction request has been made.
AiIdle == AiInit

AiNext ==
    \/ \E query \in Queries, conversation_context \in Histories :
           \E answer \in ModelAnswers(query, conversation_context) \cup {NoResponse} :
               ExtractSearchAttributes(query, conversation_context, answer)
    \/ AiHour
    \/ \E d \in ai_cache : TtlExpire(d)

(***************************************************************************)
(* Specifications                                                          *)
(***************************************************************************)
\* Any sequence of can_fetch and get_crawl_delay calls on one checker.
InitRobots == StoreIdle /\ RobotsInit /\ CrawlInit /\ FetcherInit /\ AiIdle /\ SchedulerIdle /\ ExtractIdle

SpecRobots == InitRobots /\ [][RobotsNext]_vars

\* One crawler over any sequence of crawl_seed_urls and crawl_url calls.
InitCrawl == StoreIdle /\ RobotsInit /\ CrawlInit /\ FetcherInit /\ AiIdle /\ SchedulerIdle /\ ExtractIdle

SpecCrawl == InitCrawl /\ [][CrawlNext]_vars

\* One call, run to its end: crawl_url is synchronous, so the thread that
\* called it keeps taking its steps.
SpecCrawlOnce == InitCrawl /\ [][CrawlOnceNext]_vars /\ WF_vars(CrawlRun)

\* One crawl_url(seed) call with the default max_depth on a new crawler, on
\* each of the fixed sites.
InitDeep ==
    /\ StoreIdle /\ RobotsInit /\ FetcherInit /\ AiIdle /\ SchedulerIdle /\ ExtractIdle
    /\ \E s \in FixedSites : CrawlerInit(DefaultMaxDepth, s)

SpecDeep == InitDeep /\ [][CrawlOnceNext]_vars /\ WF_vars(CrawlRun)

\* One crawl of the seed of the site "diamond" with a max_depth one below
\* the number of its pages' levels.
InitDiamond ==
    /\ StoreIdle /\ RobotsInit /\ FetcherInit /\ AiIdle /\ SchedulerIdle /\ ExtractIdle
    /\ CrawlerInit(MaxDepth + 1, "diamond")

SpecDiamond == InitDiamond /\ [][CrawlOnceNext]_vars

\* Records saved one at a time: one run, so nothing comes between a lookup
\* and its insert.
InitSave == StoreInit({"manual"}, SourceUrls) /\ RobotsInit /\ CrawlInit /\ FetcherInit /\ AiIdle /\ SchedulerIdle /\ ExtractIdle

SpecSave == InitSave /\ [][StoreNext]_vars

\* A manual trigger and a scheduled tick in flight together
\* (scheduler.py:66-72 and 115-130), each with its own scraper, on one store
\* and on the same seed page.
InitRace == StoreInit(AllRuns, {"https://a.edu/list"}) /\ RobotsInit /\ CrawlInit /\ FetcherInit /\ AiIdle /\ SchedulerIdle /\ ExtractIdle

SpecRace == InitRace /\ [][StoreNext]_vars

\* Threads calling _fetch_with_playwright on one scraper, and its executor.
InitFetcher == StoreIdle /\ RobotsInit /\ CrawlInit /\ FetcherInit /\ AiIdle /\ SchedulerIdle /\ ExtractIdle

SpecFetcher == InitFetcher /\ [][FetcherNext]_vars

\* One scheduler over a store whose seeds have no job, a job without
\* last_crawled, or a job written at hour 0; the threads in a crawl run keep
\* taking their steps.
InitScheduler ==
    /\ StoreIdle /\ RobotsInit /\ CrawlInit /\ FetcherInit /\ AiIdle /\ ExtractIdle
    /\ \E docs \in [Seeds -> {d \in JobDocs : d.at = 0}] : SchedulerInit(docs)

SpecScheduler == InitScheduler /\ [][SchedulerNext]_vars /\ WF_vars(RunSteps)

\* The same scheduler when no trigger request comes in.
SpecTicks == InitScheduler /\ [][TickNext]_vars /\ WF_vars(RunSteps)

\* The scheduler with calls that fail, over the same stores.
SpecFailing == InitScheduler /\ [][FailingNext]_vars

\* The application's scheduler over a store in which a seed has no job or a
\* job written at hour 0, with the periodic job run at its run times.
PeriodicDocs ==
    {[kind |-> "absent", at |-> 0, status |-> "none"]}
    \cup [kind : {"time"}, at : {0}, status : {"failed"}]

InitPeriodic ==
    /\ StoreIdle /\ RobotsInit /\ CrawlInit /\ FetcherInit /\ AiIdle /\ ExtractIdle
    /\ \E docs \in [Seeds -> PeriodicDocs] : SchedulerInit(docs)

SpecPeriodic == InitPeriodic /\ [][PeriodicNext]_vars

\* A phone pattern applied to a text, and then to what it extracted.
InitPhone ==
    /\ StoreIdle /\ RobotsInit /\ CrawlInit /\ FetcherInit /\ AiIdle /\ SchedulerIdle
    /\ PhoneInit /\ ExtractorIdle

SpecPhone == InitPhone /\ [][PhoneNext]_vars

\* Any sequence of _extract_search_attributes calls on one cache, as the
\* hours pass.
InitAttributes ==
    /\ StoreIdle /\ RobotsInit /\ CrawlInit /\ FetcherInit /\ SchedulerIdle
    /\ ExtractIdle /\ AiInit

SpecAttributes == InitAttributes /\ [][AiNext]_vars

\* The extractor run on one parsed page.
InitExtract ==
    /\ StoreIdle /\ RobotsInit /\ CrawlInit /\ FetcherInit /\ AiIdle /\ SchedulerIdle
    /\ PhoneIdle /\ ExtractorInit

SpecExtract == InitExtract /\ [][ExtractorNext]_vars

C8_OneRequestPerDomain ==
    \A d \in Domains :
        /\ robotsRequests[d] <= 1
        /\ robotsRequests[d] = 1 <=> robots_cache[d] # NotCached
        /\ robots_read_success[d] = "no" => robotsRequests[d] = 1

\* A get_crawl_delay call met a domain whose read had failed earlier and is
\* cached, while the same host under the other scheme has had a request of
\* its own.
C8_Witness ==
    /\ robotsLast.op = "get_crawl_delay"
    /\ robotsLast.case = "failed"
    /\ robotsLast.cached
    /\ \E h \in Hosts :
          robotsRequests[<<"http", h>>] = 1 /\ robotsRequests[<<"https", h>>] = 1

(***************************************************************************)
(* Claims about the record store                                           *)
(***************************************************************************)
RECURSIVE SumCopies(_, _)
SumCopies(coll, docs) ==
    IF docs = {} THEN 0
    ELSE LET d == CHOOSE x \in docs : TRUE
         IN coll[d] + SumCopies(coll, docs \ {d})

\* The stored copies a lookup for `record` would find.
CopiesFor(coll, record) ==
    SumCopies(coll, {d \in Records : Matches(BuildQuery(record), d)})

\* The stored copies that carry the same lookup key as `record`.
KeyCopies(coll, record) ==
    SumCopies(coll, {d \in Records : BuildQuery(d) = BuildQuery(record)})

NamedRecords == {d \in Records : d.name # Absent}

\* C4: with records saved one at a time, the store never holds two records
\* with the same (source_url, name), and a save that finds its pair stored
\* leaves exactly that one record.
C4_OnePerSourceAndName ==
    /\ \A d \in NamedRecords : CopiesFor(collection, d) <= 1
    /\ \A r \in runs :
          (runPc[r] = "found" /\ runExisting[r] /\ runRec[r].name # Absent)
              => CopiesFor(collection, runRec[r]) = 1

\* A save of a named record found its (source_url, name) already stored
\* under another phone.
C4_Witness ==
    \E r \in runs :
        /\ runPc[r] = "found"
        /\ runExisting[r]
        /\ runRec[r].name # Absent
        /\ collection[runRec[r]] = 0

\* C5: with two runs interleaving their lookups and inserts on one store,
\* no run fails, a lookup key is stored at most once per run (a duplicate
\* at worst), stored records are never removed, and every record whose save
\* went through is matched by a stored record afterwards.
C5_RaceOnlyDuplicates ==
    [][/\ \A r \in AllRuns : ~runFailed'[r]
       /\ \A d \in Records : KeyCopies(collection', d) <= Cardinality(runs)
       /\ \A d \in Records : collection'[d] >= collection[d]
       /\ \A r \in AllRuns :
             (SaveInsert(r) \/ SaveSkip(r))
                 => FindOne(collection', BuildQuery(runRec[r]))]_vars

\* The race happened: both runs looked up the same key before either
\* inserted, and the store holds two records with that key.
C5_Witness ==
    \E d \in Records : d.name # Absent /\ KeyCopies(collection, d) = 2

(***************************************************************************)
(* Claims about the crawl                                                  *)
(***************************************************************************)
\* C1: within one crawl run no URL is processed more than once: whatever the
\* sequence of top-level calls, the link graph and the repetitions in it, a
\* URL is scraped at most once and its job is written as running at most
\* once, and that only for URLs in the visited set.
C1_NoUrlProcessedTwice ==
    \A u \in AllUrls :
        /\ scrapes[u] <= 1
        /\ runningWrites[u] <= 1
        /\ (scrapes[u] > 0 \/ runningWrites[u] > 0) => u \in visited_urls

\* A second top-level call on a URL of the visited set has returned 0 at the
\* visited guard, after a first call whose link graph led back to its seed.
C1_Witness ==
    /\ stack = <<>>
    /\ calls = 2
    /\ lastReturn = [value |-> 0, line |-> 107]
    /\ \A u \in SeedUrls : scrapes[u] = 1 /\ runningWrites[u] = 1

\* The activation on top of the stack is at the entry of crawl_url with a
\* depth above max_depth.
AtEntryTooDeep == stack # <<>> /\ Top.pc = "entry" /\ Top.depth > MaxDepth

\* C2: no page fetch is issued at a depth greater than max_depth, and
\* crawl_url entered with current_depth > max_depth returns 0 without a
\* fetch, without marking the URL visited and without writing a job.
C2_NoFetchBeyondMaxDepth ==
    /\ [](\A d \in fetchDepths : d <= MaxDepth)
    /\ [][AtEntryTooDeep =>
            /\ stack' = SubSeq(stack, 1, Len(stack) - 1)
            /\ Len(stack) = 1 => lastReturn' = [value |-> 0, line |-> 104]
            /\ UNCHANGED <<visited_urls, crawl_jobs, jobCopies, scrapes, runningWrites,
                           fetchDepths, robotsRequests>>]_vars

\* A call with current_depth = max_depth + 1 on a URL never seen has
\* returned 0 at the depth guard, leaving the crawler as it was built.
C2_Witness ==
    /\ stack = <<>>
    /\ calls = 1
    /\ lastReturn = [value |-> 0, line |-> 104]
    /\ visited_urls = {}
    /\ fetchDepths = {}
    /\ \A u \in AllUrls : crawl_jobs[u] = NoJob

\* C3: crawl_url(seed) terminates on every link graph: every call in
\* progress comes to its end, the visited set strictly grows with every page
\* processed, and there are never more than max_depth + 1 activations.
C3_CrawlTerminates ==
    /\ [](Len(stack) <= MaxDepth + 1)
    /\ [][runningWrites' # runningWrites =>
            /\ visited_urls \subseteq visited_urls'
            /\ visited_urls' # visited_urls]_vars
    /\ (stack # <<>>) ~> (stack = <<>>)

\* The call has ended after a crawl max_depth + 1 activations deep in which
\* a page linked back to the seed.
C3_Witness ==
    /\ stack = <<>>
    /\ calls = 1
    /\ lastReturn.line = 164
    /\ MaxDepth \in fetchDepths
    /\ \E u \in SeedUrls : crawl_jobs[u].pages_crawled = MaxDepth + 1

\* C6: every URL the link extractor returns has the network location of the
\* page it was extracted from and an http or https scheme, so every
\* activation, and every URL visited, has the network location of the seed
\* it was reached from.
C6_LinksStayOnNetloc ==
    /\ \A i \in 1..Len(stack) :
          /\ stack[i].url.netloc = stack[i].root.netloc
          /\ \A j \in 1..Len(stack[i].todo) :
                /\ stack[i].todo[j].netloc = stack[i].url.netloc
                /\ stack[i].todo[j].scheme \in Schemes
    /\ \A u \in visited_urls : \E seed \in SeedUrls : u.netloc = seed.netloc

\* A page reached over a link under the other scheme, taken from a page
\* whose fetch could also carry links to other network locations.
C6_Witness ==
    /\ Len(stack) = 2
    /\ stack[2].url.scheme = "http"
    /\ stack[2].url \in visited_urls
    /\ Len(stack[1].todo) = MaxAnchors

(***************************************************************************)
(* Claims about rendered fetches                                           *)
(***************************************************************************)
\* C9: once a rendered fetch has failed by timeout or by browser-launch
\* failure, rendering is disabled: use_playwright is false from the return
\* of the failed call on, so no later call submits a rendered fetch.
C9_FailureDisablesRendering == failures # {} => ~use_playwright

\* The tasks whose body is executing on a worker.
Executing == {t \in Tasks : taskPc[t] \in {"init", "fetch"}}

\* C10: at most one rendered-fetch body executes at any time, whatever the
\* callers do, also while a task whose caller already timed out is still
\* running on the worker.
C10_OneBodyAtATime ==
    /\ Cardinality(Executing) <= 1
    /\ \A t \in Executing : \E w \in Workers : workerTask[w] = t

\* A task runs on after its caller timed out, and the task of a second
\* caller waits in the queue behind it.
C10_Witness ==
    /\ "timeout" \in failures
    /\ \E t \in Executing :
          /\ \A c \in Callers : callerTask[c] # t
          /\ queue # <<>>
          /\ \E c \in Callers : callerPc[c] = "wait" /\ callerTask[c] = Head(queue)

(***************************************************************************)
(* Claims about failures and the job lifecycle                             *)
(***************************************************************************)
\* An exception is being handled at the URL on top of the stack.
Handling == stack # <<>> /\ Top.pc = "except"

ActiveUrls == {stack[i].url : i \in {j \in 1..Len(stack) : stack[j].pc # "entry"}}

\* C12: a URL past the entry guard has its job written as running before
\* any fetch of it, its job stays running exactly while its activation is
\* on the stack, and so is completed or failed once crawl_url has returned;
\* completed is written from the innermost activation only, with nothing
\* left of the loop over its links.
C12_JobLifecycle ==
    /\ [](\A u \in AllUrls :
            /\ scrapes[u] > 0 => runningWrites[u] > 0
            /\ crawl_jobs[u].status = "running" <=> u \in ActiveUrls
            /\ u \in visited_urls \ ActiveUrls =>
                  crawl_jobs[u].status \in {"completed", "failed"})
    /\ [][\A u \in AllUrls :
            (crawl_jobs[u].status # "completed" /\ crawl_jobs'[u].status = "completed") =>
                /\ Top.url = u
                /\ Top.pc \in {"complete", "loop"}
                /\ Top.todo = <<>>
                /\ crawl_jobs'[u].pages_crawled = Top.pages]_vars

\* A call has returned after the seed completed over a subtree in which one
\* page completed and nothing is left running.
C12_Witness ==
    /\ stack = <<>>
    /\ lastReturn = [value |-> 2, line |-> 164]
    /\ \E u, v \in visited_urls :
          /\ u # v
          /\ crawl_jobs[u] = [status |-> "completed", pages_crawled |-> 2,
                              error_message |-> ""]
          /\ crawl_jobs[v].status = "completed"
    /\ \A u \in AllUrls : crawl_jobs[u].status # "running"

(***************************************************************************)
(* Claims about seeds and extracted links                                  *)
(***************************************************************************)
\* crawl_url has just been entered for a seed: a root activation at depth 0.
SeedAtEntry == Len(stack) = 1 /\ Top.pc = "entry" /\ Top.depth = 0

\* C19 as stated: every seed is processed as a root at depth 0, whatever the
\* earlier seeds of the run have visited.
C19_EverySeedProcessed ==
    [][SeedAtEntry => stack' = <<[Top EXCEPT !.pc = "scrape"]>>]_vars

\* C19 as amended: every seed enters crawl_url as a root at depth 0 against
\* the visited set the earlier seeds left, which never shrinks; a seed not in
\* it is processed at depth 0, and a seed already in it returns 0 at the
\* visited guard with no job written and nothing fetched.
C19_SeedsShareVisited ==
    [][/\ visited_urls \subseteq visited_urls'
       /\ (stack = <<>> /\ stack' # <<>>) => stack'[1].root = stack'[1].url
       /\ (SeedAtEntry /\ Top.url \notin visited_urls) =>
             /\ stack' = <<[Top EXCEPT !.pc = "scrape"]>>
             /\ visited_urls' = visited_urls \cup {Top.url}
       /\ (SeedAtEntry /\ Top.url \in visited_urls) =>
             /\ stack' = <<>>
             /\ lastReturn' = [value |-> 0, line |-> 107]
             /\ UNCHANGED <<crawl_jobs, jobCopies, scrapes, fetchDepths>>]_vars

\* The second seed returned 0: the first seed's crawl had reached it over a
\* link at depth max_depth, where its own links were never looked at.
C19_Witness ==
    /\ stack = <<>>
    /\ calls = 2
    /\ lastReturn = [value |-> 0, line |-> 107]
    /\ \E u, v \in SeedUrls :
          /\ crawl_jobs[u] = [status |-> "completed", pages_crawled |-> 2,
                              error_message |-> ""]
          /\ crawl_jobs[v] = [status |-> "completed", pages_crawled |-> 1,
                              error_message |-> ""]
    /\ fetchDepths = 0..MaxDepth

\* C20: the list of links taken from a page holds each URL at most once.
C20_LinksDeduplicated ==
    \A i \in 1..Len(stack) :
        \A j, k \in 1..Len(stack[i].todo) :
            stack[i].todo[j] = stack[i].todo[k] => j = k

(***************************************************************************)
(* Claims about the scheduler                                              *)
(***************************************************************************)
\* The seeds a tick has to crawl: no job, a null last_crawled, or at least
\* the interval since last_crawled.
DueSeeds ==
    {u \in Seeds : \/ seedJobs[u].kind = "absent"
                   \/ seedJobs[u].kind = "null"
                   \/ clock - seedJobs[u].at >= crawl_interval_hours}

\* Thread r goes from idle into a run, or through a run with nothing to do.
Begins(r) == runner[r].pc = "idle" /\ runner'[r].pc = "crawl"

\* C13: a periodic tick crawls exactly the due seeds, in the order of the
\* seed list: the list of its run is the due seeds, nothing is crawled and
\* no crawler is constructed when none is due, and a job is only written
\* for the URL at the head of a run's list.
C13_TickCrawlsDueSeeds ==
    [][/\ \A r \in TickThreads :
            /\ Begins(r) =>
                  /\ runner'[r].todo = SortedSeq(DueSeeds)
                  /\ runner'[r].crawler = "open"
            /\ (runner[r].pc = "idle" /\ DueSeeds = {}) =>
                  /\ runner'[r].pc = "idle"
                  /\ runner'[r].crawler \in {runner[r].crawler, "none"}
       /\ \A u \in Seeds :
            seedJobs'[u] # seedJobs[u] =>
                \E r \in Runners : /\ runner[r].pc = "crawl"
                                    /\ runner[r].todo # <<>>
                                    /\ Head(runner[r].todo) = u]_vars

\* A tick is crawling the second seed alone: the first was crawled less than
\* the interval ago, the second a full interval ago.
C13_Witness ==
    \E r \in TickThreads :
        /\ runner[r].pc = "crawl"
        /\ runner[r].todo = <<seed_urls[2]>>
        /\ seedJobs[seed_urls[1]].kind = "time"
        /\ clock - seedJobs[seed_urls[1]].at < crawl_interval_hours
        /\ seedJobs[seed_urls[2]].kind = "time"
        /\ clock - seedJobs[seed_urls[2]].at = crawl_interval_hours

\* Thread r begins the crawl run of a manual trigger.
BeginsManual(r) == Begins(r) /\ runner'[r].mode = "manual"

\* C14: a manual trigger crawls every URL it is given, or every configured
\* seed when none is given, whatever the jobs of the seeds say: the list of
\* its run is the given list or the whole seed list, and a URL leaves the
\* list only by being crawled, unless the crawl itself raises.
C14_ManualCrawlsAll ==
    [][\A r \in AppThreads :
          /\ BeginsManual(r) =>
                /\ runner'[r].todo = IF runner'[r].given # <<>>
                                     THEN runner'[r].given ELSE seed_urls
                /\ runner'[r].crawler = "open"
          /\ (runner[r].pc = "crawl" /\ runner[r].mode = "manual"
                /\ runner[r].todo # <<>> /\ runner'[r] # runner[r]) =>
                \/ /\ runner'[r].todo = Tail(runner[r].todo)
                   /\ seedJobs' = WriteJob(Head(runner[r].todo))
                \/ /\ runner'[r].pc = "idle"
                   /\ runner'[r].crawler = "open"]_vars

\* A manual trigger was given a list that starts with a seed crawled less
\* than the interval ago, and its run has that seed to crawl.
C14_Witness ==
    \E r \in AppThreads :
        /\ runner[r].pc = "crawl"
        /\ runner[r].mode = "manual"
        /\ runner[r].given # <<>>
        /\ runner[r].todo = runner[r].given
        /\ Head(runner[r].todo) \in Seeds \ DueSeeds

\* C15 as stated: a trigger request with the URL list omitted crawls the
\* due seeds only.
C15_OmittedCrawlsDueOnly ==
    [][\A r \in AppThreads :
          (BeginsManual(r) /\ runner'[r].given = <<>>) =>
              runner'[r].todo = SortedSeq(DueSeeds)]_vars

\* C15 as amended: a trigger request with the URL list omitted crawls every
\* configured seed, due or not.
C15_OmittedCrawlsEverySeed ==
    [][\A r \in AppThreads :
          (BeginsManual(r) /\ runner'[r].given = <<>>) =>
              /\ runner'[r].todo = seed_urls
              /\ \A u \in Seeds \ DueSeeds :
                    \E k \in 1..Len(runner'[r].todo) : runner'[r].todo[k] = u]_vars

\* A request without a list has every seed to crawl while no seed is due.
C15_Witness ==
    \E r \in AppThreads :
        /\ runner[r].pc = "crawl"
        /\ runner[r].mode = "manual"
        /\ runner[r].given = <<>>
        /\ runner[r].todo = seed_urls
        /\ DueSeeds = {}

\* The step in which stop() is called.
StopStep == sched = "started" /\ sched' # "started"

\* No executor thread begins a periodic crawl in this step.
NoTickBegins == \A r \in TickThreads : runner'[r].pc = "crawl" => runner[r].pc = "crawl"

C17_OneTickInFlight == Cardinality(InFlight) <= 1

\* A periodic crawl is in flight on one executor thread after an earlier
\* one ran on the other, with the scheduler running and a seed due again.
C17_Witness ==
    /\ sched = "started"
    /\ \E r, q \in TickThreads :
          /\ r # q
          /\ runner[r].pc = "crawl"
          /\ runner[q].crawler = "closed"
    /\ DueSeeds # {}

\* C18: every crawl run ends with cleanup() called on its crawler: no
\* thread is out of its run with the crawler it constructed still open.
C18_CleanupOnEveryPath ==
    \A r \in Runners : runner[r].pc = "idle" => runner[r].crawler # "open"

(***************************************************************************)
(* Claims about store errors                                               *)
(***************************************************************************)
\* A step in which run r meets a store error.
MeetsError(r) == runErrors'[r] > runErrors[r]

\* C29: a store error while looking up or inserting one record is caught for
\* that record only: no exception leaves scrape, so the page's job is not
\* failed by it; the record of that iteration is not stored by it, and the
\* loop is back between two records, where the records that remain are looked
\* up and inserted as before.
C29_StoreErrorSkipsOneRecord ==
    /\ [](\A r \in AllRuns : ~runFailed[r] /\ runPc[r] # "raised")
    /\ [][\A r \in AllRuns :
            MeetsError(r) =>
                /\ runPc'[r] = "idle"
                /\ runRec'[r] = NoRecord
                /\ collection' = collection
                /\ r \in runs']_vars

\* A run that met a store error has looked up a later record of the page and
\* is about to insert it.
C29_Witness ==
    \E r \in runs :
        /\ runErrors[r] > 0
        /\ runPc[r] = "found"
        /\ ~runExisting[r]
        /\ \E d \in Records : collection[d] > 0

(***************************************************************************)
(* Claims about the fetcher's shutdown                                     *)
(***************************************************************************)
\* C30: after cleanup has returned no browser is open and no rendered fetch
\* is executing or queued, also when a fetch that timed out for its caller
\* had its task queued or running when cleanup began.
C30_CleanupLeavesNothingOpen ==
    cleanupPc = "done" =>
        /\ browser = "none"
        /\ queue = <<>>
        /\ \A w \in Workers : workerTask[w] = NoTask

(***************************************************************************)
(* Claims about the fetches of a page                                      *)
(***************************************************************************)
\* C24: every page fetch of a run has its own politeness sleep before it, of
\* at least the configured minimum delay: no page is requested twice, and no
\* two pages are requested, without a sleep in between.
C24_SleepBeforeEveryFetch ==
    /\ io.op = "sleep" => io.seconds >= crawl_delay /\ io.seconds >= DefaultCrawlDelay
    /\ io.fetches <= 1

\* The step is the page fetch of scrape.
ScrapeFetchStep == io'.op = "fetch" /\ io'.stage = "scrape"

TopPageLinks == ExtractLinks(SiteHtml(site, Top.url), Top.url)

\* The step is a fetch made for the links of a page.
LinkFetchStep(kind) == io'.op = "fetch" /\ io'.stage = "links" /\ io'.kind = kind

\* C26: below max_depth, a rendered fetch for the links that yields no
\* content, or that is not made, is followed by a static fetch of the page,
\* whose links are then followed; when the static fetch yields nothing either
\* the page has no children and its job is written as completed.
C26_StaticFetchForLinks ==
    [][/\ (LinkFetchStep("rendered") /\ ~io'.html) =>
            Len(stack') = Len(stack) /\ Top'.pc = "links_static"
       /\ (stack # <<>> /\ Top.pc = "links_static") => LinkFetchStep("static")
       /\ (stack # <<>> /\ Top.pc = "links" /\ Top.depth >= 2) => LinkFetchStep("static")
       /\ (LinkFetchStep("static") /\ io'.html) =>
            \/ Top'.pc = "except"
            \/ /\ Top'.pc = "loop"
               /\ Top'.todo = SubSeq(TopPageLinks, 1,
                                     Min(Len(TopPageLinks), LinkLimit(Top.depth)))
       /\ (LinkFetchStep("static") /\ ~io'.html) =>
            Len(stack') = Len(stack) /\ Top'.pc = "complete" /\ Top'.todo = <<>>
       /\ (stack # <<>> /\ Top.pc = "complete") =>
            /\ Len(stack') = Len(stack) - 1
            /\ crawl_jobs'[Top.url].status = "completed"]_vars

\* The rendered fetch of a page at depth 1 gave nothing, the static fetch
\* gave its links, and the first of them is about to be followed.
C26_Witness ==
    /\ stack # <<>>
    /\ Top.depth = 1
    /\ Top.pc = "loop"
    /\ Top.todo # <<>>
    /\ Head(Top.todo) \notin visited_urls
    /\ io.op = "fetch" /\ io.stage = "links" /\ io.kind = "static" /\ io.html
    /\ use_playwright

(***************************************************************************)
(* Claims about the links followed and the pages counted                   *)
(***************************************************************************)
\* The entries of the page's link list that the limit lets through.
WithinLimit(links, depth) ==
    {links[i] : i \in 1..Min(Len(links), IF depth = 0 THEN 100 ELSE 50)}

\* The URLs that the pages of the site "wide" link to only past the limit,
\* when the seed is the page at "/".
PastLimit == {u \in AllUrls : u.scheme = "http"}

\* C27: from a page, crawl_url goes through at most the first 100 entries of
\* its link list at depth 0 and the first 50 at a deeper level, in document
\* order, entries already visited or repeated among them; an entry past the
\* limit is never followed from that page.
C27_LinkLimit ==
    /\ [](\A i \in 1..Len(stack) :
            Len(stack[i].todo) <= (IF stack[i].depth = 0 THEN 100 ELSE 50))
    /\ [](site = "wide" /\ stack # <<>> /\ stack[1].url.path = "/" =>
            \A u \in PastLimit : scrapes[u] = 0 /\ u \notin visited_urls)
    /\ [][Len(stack') = Len(stack) + 1 /\ stack # <<>> =>
            /\ Top'.url \in WithinLimit(TopPageLinks, Top.depth)
            /\ Top'.url = Head(Top.todo)
            /\ \E k \in 1..Len(TopPageLinks) :
                  /\ k + Len(Top.todo) - 1 =
                         Min(Len(TopPageLinks), IF Top.depth = 0 THEN 100 ELSE 50)
                  /\ TopPageLinks[k] = Top'.url]_vars

\* The run on the site "wide" is over: the seed and its first link are
\* completed, and the pages linked past the limit were never visited.
C27_Witness ==
    /\ site = "wide"
    /\ stack = <<>>
    /\ calls = 1
    /\ lastReturn.value = 2
    /\ \A u \in AllUrls : u.scheme = "https" /\ u.netloc = 1 =>
            crawl_jobs[u].status = "completed"
    /\ \A u \in PastLimit : crawl_jobs[u] = NoJob

\* What the call that the step returns from gave its caller.
Returned ==
    IF Len(stack) = 1 THEN lastReturn'.value
    ELSE stack'[Len(stack) - 1].pages - stack[Len(stack) - 1].pages

\* C28: crawl_url(url) returns the number of pages whose scrape returned in
\* the subtree of url, the page itself included, and 0 for a URL that the
\* entry guard rejects; the pages_crawled of the completed job of url is that
\* number.
C28_ReturnsSubtreeCount ==
    /\ [](\A u \in AllUrls :
            crawl_jobs[u].status = "completed" =>
                crawl_jobs[u].pages_crawled = Cardinality(subtree[u]))
    /\ [][(stack # <<>> /\ Len(stack') = Len(stack) - 1) =>
            /\ Returned = IF Top.pc = "entry" THEN 0 ELSE Cardinality(subtree[Top.url])
            /\ (Top.pc # "entry" /\ crawl_jobs'[Top.url].status = "completed") =>
                   crawl_jobs'[Top.url].pages_crawled = Returned]_vars

\* A call has returned 2: the seed's job is completed with two pages, one of
\* them a linked page with a completed job of its own.
C28_Witness ==
    /\ stack = <<>>
    /\ lastReturn.value = 2
    /\ \E u, v \in AllUrls :
          /\ u # v
          /\ subtree[u] = {u, v}
          /\ crawl_jobs[u].status = "completed" /\ crawl_jobs[u].pages_crawled = 2
          /\ crawl_jobs[v].status = "completed" /\ crawl_jobs[v].pages_crawled = 1

(***************************************************************************)
(* Claims about the record extractor                                       *)
(***************************************************************************)
\* The record has a non-empty standard field.
HasOneOf(record) ==
    \/ record.name # <<>> \/ record.phone # <<>> \/ record.address # <<>>
    \/ record.institution # <<>> \/ record.organization # <<>>

\* The rows of the table that gave a candidate record, and the ones among
\* them for which the table pass returned a record.
CandidateRows(t) ==
    {TableRecords(soup.tables[t])[c].row : c \in DOMAIN TableRecords(soup.tables[t])}

ReturnedRows(t) ==
    {extracted.entries[k].index :
        k \in {n \in DOMAIN extracted.entries :
                  extracted.entries[n].heuristic = "table" /\ extracted.entries[n].table = t}}

\* C21: every record the extractor returns has at least one non-empty field
\* among name, phone, address, institution and organization; a candidate
\* with none of them is left out of what the extractor returns.
C21_RecordsHaveAStandardField ==
    extracted.done =>
        /\ \A k \in DOMAIN extracted.entries : HasOneOf(extracted.entries[k].record)
        /\ \A t \in DOMAIN soup.tables : ReturnedRows(t) \subseteq CandidateRows(t)

\* Of the two rows of a table, one gave a candidate that was discarded and
\* the other a record that was returned.
C21_Witness ==
    /\ extracted.done
    /\ \E t \in DOMAIN soup.tables :
          /\ CandidateRows(t) = {2, 3}
          /\ Cardinality(ReturnedRows(t)) = 1

\* The cell of the row that ends up under the header: the last one when the
\* header is repeated, the empty string when the row has no cell there.
HasCellUnder(headers, cells, header) ==
    \E i \in DOMAIN cells : i <= Len(headers) /\ headers[i] = header

CellUnder(headers, cells, header) ==
    IF HasCellUnder(headers, cells, header)
    THEN cells[CHOOSE i \in DOMAIN cells :
                  /\ i <= Len(headers) /\ headers[i] = header
                  /\ \A j \in DOMAIN cells :
                        (j <= Len(headers) /\ headers[j] = header) => j <= i]
    ELSE <<>>

\* The phone number that the texts of the modelled cells hold.
PhoneInCell(cell) ==
    IF cell \in {<<"0", "3", "0", "-", "1", "2", "3", "4", "5", "6", "7">>, <<"A", "s", "m", "a", " ", "K", "h", "a", "n", " ", "0", "3", "0", "-", "1", "2", "3", "4", "5", "6", "7">>} THEN <<"0", "3", "0", "-", "1", "2", "3", "4", "5", "6", "7">> ELSE <<>>

\* The name of a row: the cell under Name, and the one under Student Name
\* when that is empty.
ExpectedName(headers, cells) ==
    IF CellUnder(headers, cells, <<"N", "a", "m", "e">>) # <<>>
    THEN CellUnder(headers, cells, <<"N", "a", "m", "e">>)
    ELSE CellUnder(headers, cells, <<"S", "t", "u", "d", "e", "n", "t", " ", "N", "a", "m", "e">>)

\* The phone of a row: the number in the cell under Phone, that cell as it
\* is when it holds no number, and with no such cell the number that a cell
\* under another header holds.
ExpectedPhone(headers, cells) ==
    IF CellUnder(headers, cells, <<"P", "h", "o", "n", "e">>) # <<>>
    THEN IF PhoneInCell(CellUnder(headers, cells, <<"P", "h", "o", "n", "e">>)) # <<>>
         THEN PhoneInCell(CellUnder(headers, cells, <<"P", "h", "o", "n", "e">>))
         ELSE CellUnder(headers, cells, <<"P", "h", "o", "n", "e">>)
    ELSE IF \E header \in HeaderTexts \ {<<>>} :
                PhoneInCell(CellUnder(headers, cells, header)) # <<>>
         THEN <<"0", "3", "0", "-", "1", "2", "3", "4", "5", "6", "7">>
         ELSE <<>>

\* The record of a row under the modelled headers: Name and Student Name are
\* names of the field name, Phone of the field phone, and Roll No of none.
ExpectedRecord(headers, cells, url) ==
    [source_url |-> url,
     name |-> ExpectedName(headers, cells),
     phone |-> ExpectedPhone(headers, cells),
     address |-> <<>>,
     institution |-> <<>>,
     organization |-> <<>>,
     metadata |-> IF HasCellUnder(headers, cells, <<"R", "o", "l", "l", " ", "N", "o">>)
                  THEN <<[key |-> <<"r", "o", "l", "l", "_", "n", "o">>, value |-> CellUnder(headers, cells, <<"R", "o", "l", "l", " ", "N", "o">>)]>>
                  ELSE <<>>]

\* The records the table pass returned for row j of table t.
RowEntries(t, j) ==
    SelectSeq(extracted.entries,
              LAMBDA e : e.heuristic = "table" /\ e.table = t /\ e.index = j)

\* What the record holds for a header.
HeldFor(record, header) ==
    CASE header \in {<<"N", "a", "m", "e">>, <<"S", "t", "u", "d", "e", "n", "t", " ", "N", "a", "m", "e">>} -> record.name
      [] header = <<"P", "h", "o", "n", "e">> -> record.phone
      [] OTHER -> IF \E n \in DOMAIN record.metadata : record.metadata[n].key = <<"r", "o", "l", "l", "_", "n", "o">>
                  THEN record.metadata[CHOOSE n \in DOMAIN record.metadata :
                                          record.metadata[n].key = <<"r", "o", "l", "l", "_", "n", "o">>].value
                  ELSE <<>>

\* The first row of the table holds a header in every cell, and row j has a
\* cell under each of them.
RowUnderHeaders(t, j) ==
    /\ Len(soup.tables[t][1]) > 0
    /\ \A i \in DOMAIN soup.tables[t][1] : soup.tables[t][1][i] # <<>>
    /\ Len(soup.tables[t][j]) = Len(soup.tables[t][1])

\* C22 as stated: every row after the header row yields one record, with
\* the URL of the page as source_url, that holds for the i-th header the
\* i-th cell of the row (for the phone, the cell or the number in it).
C22_EveryRowYieldsItsCells ==
    extracted.done =>
        \A t \in DOMAIN soup.tables : \A j \in 2..Len(soup.tables[t]) :
          RowUnderHeaders(t, j) =>
            /\ Len(RowEntries(t, j)) = 1
            /\ RowEntries(t, j)[1].record.source_url = soup.url
            /\ \A i \in DOMAIN soup.tables[t][j] :
                  (i <= Len(soup.tables[t][1]) /\ soup.tables[t][1][i] # <<>>) =>
                      HeldFor(RowEntries(t, j)[1].record, soup.tables[t][1][i])
                          \in {soup.tables[t][j][i], PhoneInCell(soup.tables[t][j][i])}

\* C22, amended: a row after the header row yields at most one record, in
\* the order of the rows and with the URL of the page as source_url.  Each
\* standard field holds the cell under the first of its names whose cell is
\* not empty, the last cell when a header is repeated; the phone is the
\* number in that cell when it holds one, and without a phone cell the
\* number that another cell of the row holds; the cell under a header that
\* names no standard field is kept in the metadata; a row that fills no
\* standard field yields no record.
C22_RowsMapThroughSynonyms ==
    extracted.done =>
        \A t \in DOMAIN soup.tables :
            /\ \A j \in 2..Len(soup.tables[t]) :
                  RowEntries(t, j) =
                      IF HasOneOf(ExpectedRecord(soup.tables[t][1], soup.tables[t][j], soup.url))
                      THEN <<[heuristic |-> "table", table |-> t, index |-> j,
                              record |-> ExpectedRecord(soup.tables[t][1],
                                                        soup.tables[t][j], soup.url)]>>
                      ELSE <<>>
            /\ \A k, n \in DOMAIN extracted.entries :
                  (/\ k < n
                   /\ extracted.entries[k].heuristic = "table"
                   /\ extracted.entries[n].heuristic = "table") =>
                      extracted.entries[k].index < extracted.entries[n].index

\* The page of the scenario: the row (Asma Khan, 0300-1234567) under the
\* headers (Name, Phone) gave the one record of the page, with that name
\* and that phone.
C22_Witness ==
    /\ extracted.done
    /\ soup.tables = << << <<<<"N", "a", "m", "e">>, <<"P", "h", "o", "n", "e">>>>, <<<<"A", "s", "m", "a", " ", "K", "h", "a", "n">>, <<"0", "3", "0", "0", "-", "1", "2", "3", "4", "5", "6", "7">>>> >> >>
    /\ Len(extracted.entries) = 1
    /\ extracted.entries[1].record.name = <<"A", "s", "m", "a", " ", "K", "h", "a", "n">>
    /\ extracted.entries[1].record.phone = <<"0", "3", "0", "0", "-", "1", "2", "3", "4", "5", "6", "7">>
    /\ extracted.entries[1].record.source_url = soup.url

\* C23: applying a phone pattern to a phone that the same pattern extracted
\* from a text extracts exactly that phone.
C23_PhoneExtractionIdempotent ==
    phoneRun.runs = 2 => phoneRun.again = phoneRun.value

\* The pattern of _normalize_record was applied to a phone it had extracted
\* from a longer text.
C23_Witness ==
    /\ phoneRun.runs = 2
    /\ phoneRun.function = "_normalize_record"
    /\ phoneRun.value # <<>>
    /\ Len(phoneRun.value) < Len(raw)

(***************************************************************************)
(* Claims about the pages of rendered fetches                              *)
(***************************************************************************)
\* C31: every page opened by a rendered fetch is closed before that fetch
\* attempt ends, on every path, also when navigation or content extraction
\* raises or times out: a task that has returned has left no page open.
C31_PagesClosedOnEveryPath ==
    \A t \in Tasks : TaskDone(t) => taskPage[t] # "open"

(***************************************************************************)
(* Claims about the duplicate lookup                                       *)
(***************************************************************************)
\* The documents the store holds.
Stored == {d \in Records : collection[d] > 0}

\* The fields the duplicate lookup of `record` compares with a stored
\* document, as the claim states them.
SameLookupKey(record, doc) ==
    /\ doc.source_url = record.source_url
    /\ IF record.name # Absent THEN doc.name = record.name
       ELSE IF record.phone # Absent THEN doc.phone = record.phone
       ELSE TRUE

\* C32: the duplicate lookup uses source_url plus name when the record has
\* a name, source_url plus phone when it has a phone and no name, and
\* source_url alone when it has neither; the record is inserted exactly when
\* that lookup finds nothing, so a record with neither field is inserted
\* only into a store with no record of its source_url, and a named record
\* is skipped when its source_url and name are stored under another phone.
C32_LookupKeyByNameThenPhone ==
    [][\A r \in runs :
          /\ (runPc[r] = "idle" /\ runPc'[r] = "found")
                => runExisting'[r]
                     = (\E doc \in Stored : SameLookupKey(runRec'[r], doc))
          /\ (runPc[r] = "found" /\ runPc'[r] = "idle" /\ runErrors'[r] = runErrors[r])
                => IF \E doc \in Stored : SameLookupKey(runRec[r], doc)
                   THEN collection' = collection
                   ELSE collection' = [collection EXCEPT ![runRec[r]] = 1]]_vars

\* A named record was skipped because its source_url and name are stored
\* under another phone, in a store that also holds a record with neither a
\* name nor a phone.
C32_Witness ==
    \E r \in runs :
        /\ runPc[r] = "found"
        /\ runExisting[r]
        /\ runRec[r].name # Absent
        /\ runRec[r].phone # Absent
        /\ \E doc \in Stored :
              /\ SameLookupKey(runRec[r], doc)
              /\ doc.phone # Absent
              /\ doc.phone # runRec[r].phone
        /\ \E doc \in Stored : doc.name = Absent /\ doc.phone = Absent

(***************************************************************************)
(* Claims about the stored crawl jobs                                      *)
(***************************************************************************)
\* C33: every stored crawl job has a status among running, completed and
\* failed, there is at most one document per URL, its error_message is null
\* unless its status is failed, and a job written as running has
\* pages_crawled 0.
C33_JobDocuments ==
    \A u \in AllUrls :
        /\ jobCopies[u] <= 1
        /\ jobCopies[u] = 0 <=> crawl_jobs[u] = NoJob
        /\ jobCopies[u] > 0 =>
              /\ crawl_jobs[u].status \in {"running", "completed", "failed"}
              /\ crawl_jobs[u].error_message # "" => crawl_jobs[u].status = "failed"
              /\ crawl_jobs[u].status = "running" => crawl_jobs[u].pages_crawled = 0

\* One job is running, another was written as running and then as failed
\* with its message, and a third as completed with its pages: each of them
\* is one document.
C33_Witness ==
    \E u, v, w \in AllUrls :
        /\ crawl_jobs[u].status = "running"
        /\ crawl_jobs[v].status = "failed"
        /\ crawl_jobs[v].error_message = ErrorMsg
        /\ runningWrites[v] > 0
        /\ crawl_jobs[w].status = "completed"
        /\ crawl_jobs[w].pages_crawled > 0
        /\ jobCopies[u] = 1 /\ jobCopies[v] = 1 /\ jobCopies[w] = 1

(***************************************************************************)
(* Claims about the depth a URL is processed at                            *)
(***************************************************************************)
\* The activation of u is past the entry guard at depth max_depth.
ProcessedAtMaxDepth(u) ==
    \E i \in 1..Len(stack) :
        stack[i].url = u /\ stack[i].pc # "entry" /\ stack[i].depth = max_depth

\* No activation of u is fetching the page for its links or going through
\* them, and none descends from one of u.
LinksNotFollowed(u) ==
    \A i \in 1..Len(stack) :
        stack[i].url = u =>
            /\ stack[i].pc \in {"entry", "scrape", "complete", "except"}
            /\ stack[i].todo = <<>>
            /\ i = Len(stack)

\* C34: a URL is processed at the depth at which the depth-first run meets
\* it first: a link to a visited URL is passed over whatever the depth of
\* the page that carries it, and a URL processed at depth max_depth never
\* has its links followed in that run.
C34_FirstEncounterDepth ==
    /\ \A u \in AllUrls : [](ProcessedAtMaxDepth(u) => [](LinksNotFollowed(u)))
    /\ [][(stack # <<>> /\ Top.pc = "loop" /\ Top.todo # <<>>
             /\ Head(Top.todo) \in visited_urls)
            => /\ Len(stack') <= Len(stack)
               /\ scrapes' = scrapes
               /\ visited_urls' = visited_urls]_vars

\* The crawl of the diamond's seed has returned with every job completed
\* and nothing skipped: the http root, one link from the seed, was met
\* first two links down, at max_depth, and the page it links to, two links
\* from the seed, was never visited.
C34_Witness ==
    LET seed == [scheme |-> "https", netloc |-> 1, path |-> "/"]
        root == [scheme |-> "http", netloc |-> 1, path |-> "/"]
        leaf == [scheme |-> "http", netloc |-> 1, path |-> "/list"]
        Linked(a, b) == \E i \in DOMAIN ExtractLinks(SiteHtml(site, a), a) :
                            ExtractLinks(SiteHtml(site, a), a)[i] = b
    IN /\ site = "diamond"
       /\ max_depth = 2
       /\ stack = <<>>
       /\ calls = 1
       /\ robotsSkips = 0
       /\ Linked(seed, root) /\ Linked(root, leaf)
       /\ visited_urls = {seed, [seed EXCEPT !.path = "/list"], root}
       /\ \A u \in visited_urls : crawl_jobs[u].status = "completed"
       /\ crawl_jobs[seed].pages_crawled = 3
       /\ subtree[root] = {root}
       /\ leaf \notin visited_urls

(***************************************************************************)
(* Claims about the periodic job at its run times                          *)
(***************************************************************************)
\* The periodic job makes a run in this step.
TickRuns == sched = "started" /\ periodic'.started # periodic.started

\* The seeds the run that begins in this step is to crawl.
SelectedByTick ==
    UNION {{runner'[r].todo[i] : i \in DOMAIN runner'[r].todo} :
              r \in {t \in TickThreads : runner[t].pc = "idle" /\ runner'[t].pc = "crawl"}}

\* C35: with the periodic job run at every run time, one interval apart,
\* and no manual trigger, a seed crawled by one run is not due at the next
\* run time, its last_crawled being later than the start of the run that
\* crawled it, and is due at the run time after that: two runs that crawl
\* the same seed are two intervals apart.
C35_CrawledEverySecondRun ==
    /\ [][TickRuns =>
            \A u \in Seeds :
                /\ (clock - crawl_interval_hours) \in periodic.crawled[u]
                       => u \notin SelectedByTick
                /\ ((clock - 2 * crawl_interval_hours) \in periodic.crawled[u]
                        /\ (clock - crawl_interval_hours) \notin periodic.missed)
                       => u \in SelectedByTick]_vars
    /\ [](sched = "started" =>
            \A u \in Seeds : \A a, b \in periodic.crawled[u] :
                a < b => b - a >= 2 * crawl_interval_hours)

\* A seed was crawled by the first run and by the third, and not by the
\* second, with no run time missed.
C35_Witness ==
    /\ sched = "started"
    /\ periodic.missed = {}
    /\ \E u \in Seeds :
          periodic.crawled[u] = {crawl_interval_hours, 3 * crawl_interval_hours}

\* C36: every job write stamps last_crawled, whatever status it writes,
\* and the due check reads last_crawled only: a seed whose job is failed,
\* or was left running, is selected by a periodic run exactly when a full
\* interval has passed since that write.
C36_DueByLastCrawledOnly ==
    /\ [][\A u \in Seeds :
            seedJobs'[u] # seedJobs[u] =>
                /\ seedJobs'[u].kind = "time"
                /\ seedJobs'[u].at = clock'
                /\ seedJobs'[u].status \in {"running", "completed", "failed"}]_vars
    /\ [][TickRuns =>
            \A u \in Seeds :
                (seedJobs[u].kind = "time" /\ seedJobs[u].status \in {"failed", "running"})
                    => (u \in SelectedByTick
                           <=> clock - seedJobs[u].at >= crawl_interval_hours)]_vars

\* The periodic job has just made a run that left out a seed whose job is
\* failed and a seed whose job was left running, both written by its
\* previous run less than an interval ago.
C36_Witness ==
    /\ sched = "started"
    /\ clock = periodic.started
    /\ \E u, v \in Seeds :
          /\ seedJobs[u].kind = "time" /\ seedJobs[u].status = "failed"
          /\ seedJobs[v].kind = "time" /\ seedJobs[v].status = "running"
          /\ \A w \in {u, v} :
                /\ seedJobs[w].at > 0
                /\ clock - seedJobs[w].at < crawl_interval_hours
                /\ \A r \in TickThreads :
                      \A i \in DOMAIN runner[r].todo : runner[r].todo[i] # w

(***************************************************************************)
(* Claims about where the failures of a crawl run end                      *)
(***************************************************************************)
\* The call of thread r fails in this step.
FailsIn(r) ==
    /\ runner'[r] # runner[r]
    /\ runner'[r].ended \in {"caught", "raised"}

\* The failing call of the application thread is a manual trigger with
\* explicit URLs.
ExplicitTrigger ==
    IF runner["app"].pc = "crawl"
    THEN runner["app"].mode = "manual" /\ runner["app"].given # <<>>
    ELSE \E urls \in UrlLists \ {<<>>} : TriggerFails(urls, "crawler")

\* C37: no exception leaves _crawl_job: a store lookup failure, a failure
\* to construct the crawler or an exception out of the crawl during a
\* periodic tick, or a manual trigger without URLs, is caught, leaving the
\* scheduler running, the thread free for later ticks and the manual
\* trigger reporting success; only a manual trigger with explicit URLs
\* lets the failure through to its caller.
C37_FailuresCaughtInCrawlJob ==
    /\ [](\A r \in TickThreads : runner[r].ended # "raised")
    /\ [][\A r \in Runners :
            FailsIn(r) =>
                /\ runner'[r].pc = "idle"
                /\ sched' = sched
                /\ runner'[r].ended = "raised" <=> (r = "app" /\ ExplicitTrigger)
                /\ (r = "app" /\ ~ExplicitTrigger) => TriggerReply' = "success"]_vars

\* A periodic run is crawling after an earlier tick failed and was caught,
\* and the application's last call failed and was caught too.
C37_Witness ==
    /\ sched = "started"
    /\ runner["tick1"].ended = "caught"
    /\ runner["tick1"].crawler = "none"
    /\ runner["tick2"].pc = "crawl"
    /\ runner["app"].ended = "caught"
    /\ TriggerReply = "success"

(***************************************************************************)
(* Claims about the cache of extracted attributes                          *)
(***************************************************************************)
\* The entries cached for a query text that have not expired.
LiveFor(query) ==
    {d \in ai_cache :
        /\ d.query_hash.query = strip(lower(query))
        /\ d.query_hash.context.query = query
        /\ utcnow < d.expires_at}

\* This step is a call of _extract_search_attributes that no call like it
\* went before, or one that wrote to the cache.
Extracts ==
    \/ lastExtract' # lastExtract
    \/ ai_cache' \ ai_cache # {}

\* C38: the cache key of an extraction is built from the query text alone:
\* while a result cached for a query text has not expired, every request
\* with that text receives it, whatever its conversation history, and the
\* model is not asked.
C38_CacheKeyIgnoresHistory ==
    [][(Extracts /\ LiveFor(lastExtract'.query) # {}) =>
          /\ lastExtract'.from = "cache"
          /\ \E d \in LiveFor(lastExtract'.query) : lastExtract'.result = d.response
          /\ ai_cache' = ai_cache]_vars

\* A request received a person its own query and history do not speak of:
\* the result cached for the same query text under another conversation.
C38_Witness ==
    /\ lastExtract.from = "cache"
    /\ lastExtract.history # <<>>
    /\ \E p \in People \ Mentioned(lastExtract.query, lastExtract.history) :
           lastExtract.result.attributes = {<<"name", Spelled(p)>>}

====
